---- MODULE Spec2Model ----
(***************************************************************************)
(* A model of boxpy (box.py): the configuration resolution of class        *)
(* Config, the port allocation of class VBoxManage and the command         *)
(* functions vmcreate / vmdestroy / vmrebuild driving VirtualBox through   *)
(* the vboxmanage command line tool.                                       *)
(***************************************************************************)
EXTENDS Integers, Sequences, FiniteSets, TLC

VARIABLES
    vms,          \* VirtualBox's registry: VM name -> machine (its XML), or NoVM
    fs,           \* the local file system: existing path -> content
    args,         \* argparse namespace of the running invocation
    conf,         \* the Config object of the running invocation
    cloud_config, \* what Config.get_cloud_config returned (the guest document)
    cmd,          \* the command function main() dispatched to
    pc,           \* the position of the invocation
    rc,           \* what the running function returned or raised
    vbox,         \* the VBoxManage object: name_or_uuid, vm_info, uuid
    username,     \* vmcreate: the user the probe logs in as
    out,          \* vmcreate: what the last probe answered
    switches,     \* vmcreate: how often the probe changed its user
    tmp,          \* the temporary directories of the IsoImage and the Image
    path_to_disk, \* vmcreate: the boot disk made by convert_to_vdi
    disk_path,    \* vmrebuild: the disk of the VM being rebuilt
    todo,         \* vmdestroy: the names still to be destroyed
    used_ports,   \* _find_unused_port: the ports found by the scan
    ret,          \* where VBoxManage.destroy returns to
    warned,       \* vmcreate: the status its warning after the wait reported
    calls         \* the mutating vboxmanage commands issued so far

vars == <<vms, fs, args, conf, cloud_config, cmd, pc, rc, vbox, username, out,
          switches, tmp, path_to_disk, disk_path, todo, used_ports, ret,
          warned, calls>>

\* the local variables of the command functions
locals == <<username, out, switches, tmp, path_to_disk, disk_path, todo,
            used_ports, ret>>

-----------------------------------------------------------------------------
(* Python values.  A str holding a decimal numeral is kept apart from a    *)
(* str holding text and from an int, so that str(), == and `in` act on     *)
(* them as Python does ('2222' != 2222).                                   *)

None == <<"none", 0>>
S(t) == <<"str", t>>        \* a str of text
N(n) == <<"num", n>>        \* a str holding the decimal numeral of n
I(n) == <<"int", n>>        \* an int
B(b) == <<"bool", b>>       \* a bool
P(comps) == <<"path", comps>>  \* a str naming a file: root, components
L(seq) == <<"list", seq>>   \* a list
D(seq) == <<"dict", seq>>   \* an insertion-ordered dict: <<key, value>> pairs
M(f) == <<"map", f>>        \* a mapping of a YAML document: key -> value
TPL(n) == <<"tpl", n>>      \* a str holding the placeholder ${n}
FWD(h, g) == <<"h:g", h, g>>  \* the str 'h:g' of two port numerals
Raise(e) == <<"raise", e>>  \* an exception propagating

\* Python's truth value: `if not val`
Truthy(v) ==
    CASE v[1] = "none" -> FALSE
      [] v[1] = "int" -> v[2] # 0
      [] v[1] = "bool" -> v[2]
      [] v[1] = "str" -> v[2] # ""
      [] v[1] = "list" -> v[2] # <<>>
      [] v[1] = "dict" -> v[2] # <<>>
      [] v[1] = "map" -> DOMAIN v[2] # {}
      [] OTHER -> TRUE

\* Python's str()
str(v) ==
    CASE v[1] = "int" -> N(v[2])
      [] v[1] = "bool" -> S(IF v[2] THEN "True" ELSE "False")
      [] v[1] = "none" -> S("None")
      [] v[1] = "map" -> S("{...}")
      [] v[1] = "list" -> S("[...]")
      [] OTHER -> v

EmptyDict == [k \in {} |-> None]

\* dict.get(k)
Get(d, k) == IF k \in DOMAIN d THEN d[k] ELSE None

Put(d, k, v) == [x \in DOMAIN d \cup {k} |-> IF x = k THEN v ELSE d[x]]

Del(d, k) == [x \in DOMAIN d \ {k} |-> d[x]]

Range(seq) == {seq[i] : i \in DOMAIN seq}

\* d[k] = v on an insertion-ordered dict: a new key goes last
DictSet(seq, k, v) ==
    IF \E i \in DOMAIN seq : seq[i][1] = k
    THEN [i \in DOMAIN seq |-> IF seq[i][1] = k THEN <<k, v>> ELSE seq[i]]
    ELSE Append(seq, <<k, v>>)

\* for k, v in pairs: d[k] = v
RECURSIVE DictSetAll(_, _)
DictSetAll(seq, pairs) ==
    IF pairs = <<>> THEN seq
    ELSE DictSetAll(DictSet(seq, Head(pairs)[1], Head(pairs)[2]), Tail(pairs))

-----------------------------------------------------------------------------
(* Paths: a root ("/" absolute, "~" home-relative, "." relative to the     *)
(* working directory) followed by components; a last component ".pub" is  *)
(* the suffix .pub of the file name.                                       *)

Cwd == <<"/", "cwd">>
Home == <<"/", "home">>

endswith_pub(p) == p[2][Len(p[2])] = ".pub"

add_pub(p) == P(Append(p[2], ".pub"))

\* os.path.abspath
abspath(p) ==
    CASE p[2][1] = "/" -> p
      [] p[2][1] = "." -> P(Cwd \o Tail(p[2]))
      [] OTHER -> P(Cwd \o p[2])

\* os.path.expanduser
expanduser(p) == IF p[2][1] = "~" THEN P(Home \o Tail(p[2])) ELSE p

\* os.path.join(a, b)
join(a, b) ==
    CASE b[2][1] = "/" -> b
      [] b[2][1] = "." -> P(a[2] \o Tail(b[2]))
      [] OTHER -> P(a[2] \o b[2])

\* os.path.exists
exists(files, p) == abspath(p)[2] \in DOMAIN files

-----------------------------------------------------------------------------
(* Module constants of box.py                                              *)

\* DISTROS: the registry of known distributions (the entry 'custom' is
\* added at run time by Config._update_distros_with_custom_image and is kept
\* in the Config object's field `custom` here)
DISTROS ==
    [ubuntu |-> [username |-> S("ubuntu"), realname |-> S("ubuntu"),
                 default_version |-> S("22.04")],
     fedora |-> [username |-> S("fedora"), realname |-> S("fedora"),
                 default_version |-> S("34")],
     centos |-> [username |-> S("centos"), realname |-> S("centos"),
                 default_version |-> S("8")]]

\* yaml.safe_load(USER_DATA): the compiled-in cloud-config document
USER_DATA ==
    M([users |-> L(<<S("default"),
                     M([name |-> TPL("username"),
                        ssh_authorized_keys |-> L(<<TPL("ssh_key")>>),
                        chpasswd |-> M([expire |-> B(FALSE)]),
                        gecos |-> TPL("realname"),
                        sudo |-> S("ALL=(ALL) NOPASSWD:ALL"),
                        groups |-> S("users, admin")])>>),
       no_ssh_fingerprints |-> B(TRUE),
       ssh |-> M([emit_keys_to_console |-> B(FALSE)]),
       boxpy_data |-> M([cpus |-> I(1),
                         disk_size |-> I(6144),
                         key |-> P(<<"~", ".ssh", "id_rsa">>),
                         memory |-> I(1024)])])

ATTRS == {"cpus", "config", "creator", "disable_nested", "disk_size",
          "distro", "default_user", "forwarding", "hostname", "image",
          "key", "memory", "name", "port", "version", "username"}

-----------------------------------------------------------------------------
(* The machine VirtualBox keeps for a registered VM (its .vbox XML file    *)
(* and run state), and VBoxManage.get_vm_info which parses it.             *)

NoVM == [registered |-> FALSE, uuid |-> "", cpus |-> None, memory |-> None,
         extradata |-> EmptyDict, rules |-> <<>>, running |-> FALSE,
         controllers |-> {}, hdds |-> <<>>, dvd |-> <<>>, crippled |-> FALSE]

Merge(d1, d2) ==
    [k \in DOMAIN d1 \cup DOMAIN d2 |-> IF k \in DOMAIN d2 THEN d2[k] ELSE d1[k]]

\* the loop over the Forwarding elements: the rule named boxpyssh gives
\* 'port', every other rule an entry of the dict 'forwarding'
RECURSIVE ForwardingInfo(_, _)
ForwardingInfo(info, rules) ==
    IF rules = <<>> THEN info
    ELSE LET rule == Head(rules) IN
         IF rule.name = "boxpyssh"
         THEN ForwardingInfo(Put(info, "port", N(rule.hostport)), Tail(rules))
         ELSE ForwardingInfo(
                  Put(info, "forwarding",
                      D(DictSet(IF "forwarding" \in DOMAIN info
                                THEN info["forwarding"][2] ELSE <<>>,
                                rule.hostport, rule.guestport))),
                  Tail(rules))

\* VBoxManage.get_vm_info: {} when showvminfo fails (no such VM)
get_vm_info(vm) ==
    IF ~vm.registered THEN EmptyDict
    ELSE LET base == [config_file |-> S(vm.uuid),
                      cpus |-> IF vm.cpus = None THEN N(1) ELSE vm.cpus,
                      uuid |-> S(vm.uuid),
                      memory |-> vm.memory]
             extra == Merge(base, vm.extradata)
             media == Put(extra, "media",
                          L([i \in DOMAIN vm.hdds |-> vm.hdds[i]]
                            \o vm.dvd))
         IN  ForwardingInfo(media, vm.rules)

-----------------------------------------------------------------------------
(* class Config                                                            *)

\* Config._update(source, update): `update` is a mapping; assigning a key
\* of a `source` that is no mapping (a str, an int, a list, None) raises
\* TypeError
RECURSIVE _update(_, _)
_update(source, update) ==
    IF DOMAIN update[2] = {} THEN source
    ELSE IF source[1] # "map" THEN Raise("TypeError")
    ELSE LET new(key) ==
                 LET val == update[2][key] IN
                 IF val[1] = "map"
                 THEN _update(IF key \in DOMAIN source[2] THEN source[2][key]
                              ELSE M(EmptyDict), val)
                 ELSE val
         IN  IF \E key \in DOMAIN update[2] : new(key) = Raise("TypeError")
             THEN Raise("TypeError")
             ELSE M([key \in DOMAIN source[2] \cup DOMAIN update[2] |->
                        IF key \in DOMAIN update[2] THEN new(key)
                        ELSE source[2][key]])

\* Config.__init__, lines 370-386: the attributes before any layer
NewConfig(a) ==
    [advanced |-> None, distro |-> None, default_user |-> None,
     cpus |-> None, creator |-> None, disable_nested |-> S("False"),
     disk_size |-> None, forwarding |-> D(<<>>), hostname |-> None,
     image |-> None, key |-> None, memory |-> None, name |-> a["name"],
     port |-> None, version |-> None, username |-> None,
     _conf |-> M(EmptyDict),
     config |-> None, user_data |-> None, ssh_key_path |-> None,
     custom |-> None, error |-> "unresolved"]

\* Config._set_defaults
_set_defaults(c) ==
    LET data == USER_DATA[2]["boxpy_data"][2] IN
    [k \in DOMAIN c |->
        IF k \in DOMAIN data THEN str(data[k])
        ELSE IF k = "_conf" THEN USER_DATA
        ELSE c[k]]

\* Config.__init__, lines 394-397: the attributes the VM carries
ApplyVmInfo(c, vm_info) ==
    [k \in DOMAIN c |->
        IF k \in ATTRS /\ Truthy(Get(vm_info, k)) THEN vm_info[k] ELSE c[k]]

\* Config.__init__, lines 400-403: the path of the user's cloud config
UserDataPath(a, vm_info) ==
    IF "config" \in DOMAIN a /\ Truthy(a["config"])
    THEN abspath(a["config"])
    ELSE Get(vm_info, "user_data")

\* ports.split(':') on every item of a list of 'host:guest' strings
Split(items) == [i \in DOMAIN items |-> <<items[i][2], items[i][3]>>]

\* a setting of attributes in which 'forwarding' takes the place of the dict
SetAttributesInstead(c, data) ==
    [k \in DOMAIN c |->
        IF k \notin DOMAIN data \/ ~Truthy(data[k]) THEN c[k]
        ELSE IF k = "forwarding"
             THEN D(DictSetAll(<<>>, Split(data[k][2])))
             ELSE str(data[k])]

\* Config._combine_cc, lines 549-557, and Config.__init__, lines 411-420:
\* every key with a true value sets the attribute to str(value);
\* 'forwarding' adds its host:guest pairs to the dict instead
SetAttributes(c, data) ==
    [k \in DOMAIN c |->
        IF k \notin DOMAIN data \/ ~Truthy(data[k]) THEN c[k]
        ELSE IF k = "forwarding"
             THEN D(DictSetAll(c[k][2], Split(data[k][2])))
             ELSE str(data[k])]

\* Config._combine_cc
_combine_cc(c, files) ==
    IF ~Truthy(c.user_data) THEN c
    ELSE IF ~exists(files, c.user_data) THEN c
    ELSE LET custom_conf == files[abspath(c.user_data)[2]] IN
         IF custom_conf[1] # "map" THEN [c EXCEPT !.error = "YAMLError"]
         ELSE LET merged == _update(USER_DATA, custom_conf) IN
              IF merged[1] = "raise" THEN [c EXCEPT !.error = merged[2]]
              ELSE LET data == Get(merged[2], "boxpy_data") IN
                   IF "boxpy_data" \in DOMAIN merged[2] /\ data[1] # "map"
                   THEN [c EXCEPT !.error = "AttributeError"]
                   ELSE LET set == SetAttributes(c, IF data = None THEN EmptyDict
                                                    ELSE data[2])
                        IN  IF Truthy(data)
                            THEN [set EXCEPT
                                    !.advanced =
                                        IF Truthy(Get(data[2], "advanced"))
                                        THEN data[2]["advanced"] ELSE @,
                                    !._conf = M(Del(merged[2], "boxpy_data"))]
                            ELSE [set EXCEPT !._conf = merged]


\* a command line that only fills in what no other layer has set
ApplyArgsOnlyUnset(c, a) ==
    SetAttributes(c, [k \in {x \in DOMAIN a \cap ATTRS : ~Truthy(c[x])} |-> a[k]])

\* Config.__init__, lines 411-420: the command line
ApplyArgs(c, a) ==
    SetAttributes(c, [k \in DOMAIN a \cap ATTRS |-> a[k]])

\* Config._update_distros_with_custom_image (the entry DISTROS['custom'] is
\* the field `custom`: the username it registers)
_update_distros_with_custom_image(c) ==
    [c EXCEPT !.image = abspath(@),
              !.distro = S("custom"),
              !.username = IF ~Truthy(@) THEN c.default_user ELSE @,
              !.custom = <<"distro", c.default_user>>]

\* `self.distro in DISTROS`
KnownDistro(c) ==
    \/ c.distro[1] = "str" /\ c.distro[2] \in DOMAIN DISTROS
    \/ c.distro = S("custom") /\ c.custom # None

\* DISTROS[self.distro]['username']
DistroUsername(c) ==
    IF c.distro = S("custom") THEN c.custom[2]
    ELSE DISTROS[c.distro[2]].username

\* the characters of the VM names of the model
Chars(name) ==
    CASE name = "dev" -> <<"d", "e", "v">>
      [] name = "My VM!" -> <<"M", "y", " ", "V", "M", "!">>
      [] name = "web-1" -> <<"w", "e", "b", "-", "1">>
      [] name = "Zoë B_2" -> <<"Z", "o", "ë", " ", "B", "_", "2">>

\* a str.isalnum that lets every character through
isalnum_any(x) == TRUE

\* str.isalnum on one character: letters, of any alphabet, and digits
isalnum(x) ==
    x \in {"d", "e", "v", "M", "y", "V", "w", "b", "1", "Z", "o", "ë", "B", "2"}

\* Config._normalize_name: replace(' ', '-'), then
\* encode('ascii', errors='ignore'), which drops what is not ASCII, then the
\* join over the characters that are alphanumeric or '-'
RECURSIVE NormalizeChars(_)
NormalizeChars(chars) ==
    IF chars = <<>> THEN ""
    ELSE LET x == IF Head(chars) = " " THEN "-" ELSE Head(chars) IN
         (IF x # "ë" /\ (isalnum(x) \/ x = "-") THEN x ELSE "")
             \o NormalizeChars(Tail(chars))

_normalize_name(c) == S(NormalizeChars(Chars(c.name[2])))

\* Config._set_ssh_key_path
_set_ssh_key_path(c, files) ==
    LET p1 == IF endswith_pub(c.key) THEN c.key ELSE add_pub(c.key)
        p2 == IF exists(files, p1) THEN p1 ELSE expanduser(p1)
        p3 == IF exists(files, p2) THEN p2
              ELSE join(expanduser(P(<<"~", ".ssh">>)), p2)
    IN  [c EXCEPT !.ssh_key_path = p3,
                  !.error = IF exists(files, p3) THEN "ok" ELSE "BoxConfError"]

\* Config.__init__, lines 422-435: what follows the layers
Normalize(c, files) ==
    LET c1 == IF Truthy(c.image) THEN _update_distros_with_custom_image(c) ELSE c
        c2 == IF Truthy(c1.distro) THEN c1 ELSE [c1 EXCEPT !.distro = S("ubuntu")]
    IN  IF ~Truthy(c2.version) /\ ~KnownDistro(c2)
        THEN [c2 EXCEPT !.error = "KeyError"]
        ELSE LET c3 == IF Truthy(c2.version) THEN c2
                       ELSE [c2 EXCEPT !.version =
                                IF c2.distro = S("custom") THEN S("0")
                                ELSE DISTROS[c2.distro[2]].default_version]
                 c4 == [c3 EXCEPT !.hostname =
                            IF Truthy(@) THEN @ ELSE _normalize_name(c3)]
             IN  _set_ssh_key_path(c4, files)

\* a constructor that reads the VM's attributes after the user's file
ConfigVmInfoAfterFile(a, vm_info, files) ==
    LET c1 == _set_defaults(NewConfig(a))
        c2 == _combine_cc([c1 EXCEPT !.user_data = UserDataPath(a, vm_info)],
                          files)
    IN  IF c2.error # "unresolved" THEN c2
        ELSE Normalize(ApplyArgs(ApplyVmInfo(c2, vm_info), a), files)

\* Config.__init__(args, vbox): vm_info is vbox.get_vm_info(), or {} without
\* a vbox.  The field `error` is "ok" or the exception the constructor raised
Config(a, vm_info, files) ==
    LET c1 == ApplyVmInfo(_set_defaults(NewConfig(a)), vm_info)
        c2 == _combine_cc([c1 EXCEPT !.user_data = UserDataPath(a, vm_info)],
                          files)
    IN  IF c2.error # "unresolved" THEN c2
        ELSE Normalize(ApplyArgs(c2, a), files)


\* string.Template(...).substitute over the dumped document: every
\* placeholder is replaced, everything else is kept
RECURSIVE Substitute(_, _)
Substitute(v, env) ==
    CASE v[1] = "tpl" -> str(env[v[2]])
      [] v[1] = "map" -> M([k \in DOMAIN v[2] |-> Substitute(v[2][k], env)])
      [] v[1] = "list" -> L([i \in DOMAIN v[2] |-> Substitute(v[2][i], env)])
      [] OTHER -> v

\* Config._read_filename: the existence test expands the user directory,
\* open() does not
_read_filename(fname, files) ==
    IF ~exists(files, expanduser(fname)) THEN None
    ELSE IF ~exists(files, fname) THEN Raise("FileNotFoundError")
    ELSE files[abspath(fname)[2]]

\* Config._get_url: the text of a 200 response, None for any other code
\* (the URLs that answer 200 are kept in the file system under "http:")
_get_url(url, files) ==
    IF <<"http:", url[2]>> \in DOMAIN files THEN files[<<"http:", url[2]>>]
    ELSE None

\* Config.get_cloud_config, lines 453-479: one item of write_files; the
\* result is the list of the items it appends (none or one), or an exception
WriteFile(file_data, files) ==
    LET fname == Get(file_data[2], "filename")
        url == Get(file_data[2], "url")
        read == IF Truthy(fname) THEN _read_filename(fname, files) ELSE None
        got == IF Truthy(url) THEN _get_url(url, files) ELSE read
        key == IF Truthy(url) THEN "url" ELSE "filename"
    IN  IF ~Truthy(fname) /\ ~Truthy(url) THEN L(<<file_data>>)
        ELSE IF Truthy(fname) /\ read = None THEN L(<<>>)
        ELSE IF read[1] = "raise" THEN read
        ELSE IF Truthy(url) /\ got = None THEN L(<<>>)
        ELSE IF Truthy(got)
             THEN L(<<M(Put(Del(file_data[2], key), "content", got))>>)
             ELSE L(<<>>)

\* Config.get_cloud_config, lines 452-481: the loop over write_files
RECURSIVE WriteFiles(_, _)
WriteFiles(items, files) ==
    IF items = <<>> THEN L(<<>>)
    ELSE LET one == WriteFile(Head(items), files)
             rest == WriteFiles(Tail(items), files)
         IN  IF one[1] = "raise" THEN one
             ELSE IF rest[1] = "raise" THEN rest
             ELSE L(one[2] \o rest[2])

\* Config.get_cloud_config: the document written to the config drive
get_cloud_config(c, files) ==
    IF ~KnownDistro(c) THEN Raise("KeyError")
    ELSE LET doc == Substitute(c._conf,
                        [ssh_key |-> files[abspath(c.ssh_key_path)[2]],
                         username |-> DistroUsername(c),
                         realname |-> IF c.distro = S("custom")
                                      THEN S("custom os")
                                      ELSE DISTROS[c.distro[2]].realname])
         IN  IF ~Truthy(Get(doc[2], "write_files")) THEN doc
             ELSE LET new_list == WriteFiles(doc[2]["write_files"][2], files)
                  IN  IF new_list[1] = "raise" THEN new_list
                      ELSE M(Put(doc[2], "write_files", new_list))

-----------------------------------------------------------------------------
(* The bounded world: VM names, machines, files, command lines             *)

MaxCliSet == 2     \* at most this many options are given on a command line

VMNames == {"dev", "web-1", "My VM!", "Zoë B_2"}

Rule(name, hostport, guestport) ==
    [name |-> name, hostport |-> hostport, guestport |-> guestport]

Machine(uuid, cpus, memory, extradata, rules, hdds) ==
    [registered |-> TRUE, uuid |-> uuid, cpus |-> cpus, memory |-> memory,
     extradata |-> extradata, rules |-> rules, running |-> FALSE,
     controllers |-> {"IDE", "SATA"}, hdds |-> hdds, dvd |-> <<>>,
     crippled |-> FALSE]

Disk(name, size) == [type |-> "HardDisk", location |-> name, size |-> size]

\* machines an earlier create of boxpy left behind, and one made by hand
VmCentos ==
    Machine("u-centos", N(4), N(4096),
            [distro |-> S("centos"), hostname |-> S("oldhost"),
             key |-> P(<<"~", ".ssh", "id_rsa">>), version |-> S("8"),
             creator |-> S("boxpy")],
            <<Rule("boxpyssh", 2222, 22), Rule("custom-pf-1", 8000, 80)>>,
            <<Disk("d.vdi", 10240)>>)

VmWithUserData ==
    Machine("u-userdata", N(4), N(4096),
            [distro |-> S("ubuntu"), hostname |-> S("oldhost"),
             key |-> P(<<".", "mykey">>), version |-> S("22.04"),
             username |-> S("bob"),
             user_data |-> P(<<"/", "cwd", "old.yaml">>),
             creator |-> S("boxpy")],
            <<Rule("boxpyssh", 2000, 22)>>,
            <<Disk("d.vdi", 10240)>>)

VmCustom ==
    Machine("u-custom", None, N(2048),
            [distro |-> S("custom"), hostname |-> S("oldhost"),
             key |-> P(<<"~", ".ssh", "id_rsa">>), version |-> S("0"),
             image |-> P(<<"/", "img", "c.qcow2">>), username |-> S("admin"),
             creator |-> S("boxpy")],
            <<Rule("boxpyssh", 2001, 22)>>,
            <<Disk("d.vdi", 20480)>>)

VmBare ==
    Machine("u-bare", None, N(512), EmptyDict, <<>>, <<>>)

ConfVMs == <<NoVM, VmCentos, VmWithUserData, VmCustom, VmBare>>

\* what a command line can set: <<dest, value>>
CliOptions ==
    << <<"cpus", I(2)>>,
       <<"config", P(<<".", "user.yaml">>)>>,
       <<"disable_nested", B(TRUE)>>,
       <<"disk_size", N(20480)>>,
       <<"distro", S("fedora")>>,
       <<"default_user", S("admin")>>,
       <<"forwarding", L(<<FWD(8080, 80), FWD(8000, 22)>>)>>,
       <<"hostname", S("clihost")>>,
       <<"image", P(<<".", "img.qcow2">>)>>,
       <<"image", P(<<"/", "img", "c.qcow2">>)>>,
       <<"key", P(<<".", "mykey">>)>>,
       <<"memory", N(2048)>>,
       <<"port", N(2222)>>,
       <<"version", S("20.04")>> >>

\* the dests of the parsers of create and rebuild
ArgNames == {"name", "config", "distro", "default_user", "forwarding",
             "image", "key", "memory", "hostname", "port", "disable_nested",
             "disk_size", "type", "cpus", "version"}

CliChoices(max) ==
    {X \in SUBSET DOMAIN CliOptions :
        /\ Cardinality(X) <= max
        /\ \A i, j \in X : i # j => CliOptions[i][1] # CliOptions[j][1]}

\* parser.parse_args(): the namespace of `create name [options]`
MkArgs(name, chosen) ==
    [k \in ArgNames |->
        IF k = "name" THEN S(name)
        ELSE IF \E i \in chosen : CliOptions[i][1] = k
             THEN CliOptions[CHOOSE i \in chosen : CliOptions[i][1] = k][2]
        ELSE IF k = "disable_nested" THEN B(FALSE)
        ELSE IF k = "type" THEN S("headless")
        ELSE None]

\* contents of the user's cloud-config file (the last is not YAML)
UserDocs ==
    << M([packages |-> L(<<S("vim")>>)]),
       M([boxpy_data |-> M([cpus |-> I(8)])]),
       M([boxpy_data |-> M([cpus |-> None, memory |-> I(0)]),
          packages |-> L(<<S("vim")>>)]),
       M([boxpy_data |-> M([hostname |-> S("filehost"),
                            distro |-> S("fedora"),
                            username |-> S("bob"),
                            port |-> I(2001)])]),
       M([boxpy_data |-> M([forwarding |-> L(<<FWD(8000, 8000), FWD(9090, 90)>>),
                            advanced |-> M([nic2 |-> S("intnet")])]),
          ssh |-> M([emit_keys_to_console |-> B(TRUE)])]),
       S("{not: yaml") >>

KeyPaths == {<<"/", "home", ".ssh", "id_rsa", ".pub">>,
             <<"/", "cwd", "mykey", ".pub">>}

UserPaths == {<<"/", "cwd", "user.yaml">>, <<"/", "cwd", "old.yaml">>}

\* a file system: public keys `keys`, and the user's files holding UserDocs[d]
\* (d = 0: no such files)
FileSystem(keys, d) ==
    [p \in keys \cup (IF d = 0 THEN {} ELSE UserPaths) |->
        IF p \in keys THEN S("ssh-rsa AAAA") ELSE UserDocs[d]]

\* VBoxManage(name).__init__
VBoxManage(name) == [name |-> name, vm_info |-> EmptyDict, uuid |-> None]

\* the variables of an invocation before main() dispatches
Idle ==
    /\ cloud_config = None
    /\ rc = None
    /\ vbox = VBoxManage(None)
    /\ username = None
    /\ out = "nothing"
    /\ switches = 0
    /\ tmp = {}
    /\ path_to_disk = None
    /\ disk_path = None
    /\ todo = <<>>
    /\ used_ports = EmptyDict
    /\ ret = "none"
    /\ warned = "nothing"
    /\ calls = <<>>

-----------------------------------------------------------------------------
(* SpecConf: the resolution of a Config from the command line, the VM's    *)
(* attributes and the user's file, and the document made from it           *)

InitConf ==
    /\ \E n \in {"dev", "My VM!", "Zoë B_2"}, v \in DOMAIN ConfVMs,
          chosen \in CliChoices(MaxCliSet),
          keys \in {{}, {<<"/", "home", ".ssh", "id_rsa", ".pub">>}, KeyPaths,
                    {<<"/", "home", ".ssh", "id_rsa", ".pub">>,
                     <<"/", "cwd", "mykey">>}},
          d \in 0..Len(UserDocs) :
          /\ vms = [x \in VMNames |-> IF x = n THEN ConfVMs[v] ELSE NoVM]
          /\ fs = FileSystem(keys, d)
          /\ args = MkArgs(n, chosen)
    /\ conf = NewConfig(args)
    /\ cmd = "Config"
    /\ pc = "init"
    /\ Idle

\* Config(args), as vmcreate builds it
ResolveNew ==
    /\ cmd = "Config" /\ pc = "init"
    /\ conf' = Config(args, EmptyDict, fs)
    /\ vbox' = [vbox EXCEPT !.vm_info = EmptyDict]
    /\ pc' = "resolved"
    /\ UNCHANGED <<vms, fs, warned, args, cloud_config, cmd, rc, locals, calls>>

\* Config(args, vbox), as vmrebuild and connect build it for an existing VM
ResolveExisting ==
    /\ cmd = "Config" /\ pc = "init"
    /\ vms[args["name"][2]].registered
    /\ LET vm_info == get_vm_info(vms[args["name"][2]]) IN
       /\ conf' = Config(args, vm_info, fs)
       /\ vbox' = [vbox EXCEPT !.vm_info = vm_info]
    /\ pc' = "resolved"
    /\ UNCHANGED <<vms, fs, warned, args, cloud_config, cmd, rc, locals, calls>>

\* conf.get_cloud_config(), as IsoImage calls it
Materialize ==
    /\ cmd = "Config" /\ pc = "resolved"
    /\ conf.error = "ok"
    /\ cloud_config' = get_cloud_config(conf, fs)
    /\ pc' = "dumped"
    /\ UNCHANGED <<vms, fs, warned, args, conf, cmd, rc, vbox, locals, calls>>

NextConf == ResolveNew \/ ResolveExisting \/ Materialize

SpecConf == InitConf /\ [][NextConf]_vars

-----------------------------------------------------------------------------
(* SpecMerge: Config._update on two documents                              *)

\* the scalars and lists of the documents
MergeLeaves == {I(1), L(<<I(1), I(2)>>), L(<<I(3)>>)}

\* the mappings over `keys` with values from `values`
Mappings(keys, values) ==
    {M(f) : f \in UNION {[K -> values] : K \in SUBSET keys}}

\* the documents: mappings of scalars, lists and mappings of these
MergeDocs ==
    Mappings({"a", "b"}, MergeLeaves \cup Mappings({"x", "y"}, MergeLeaves))

InitMerge ==
    /\ \E old \in MergeDocs, new \in MergeDocs :
           args = [source |-> old, update |-> new]
    /\ vms = [x \in VMNames |-> NoVM]
    /\ fs = FileSystem({}, 0)
    /\ conf = NewConfig(MkArgs("dev", {}))
    /\ cmd = "_update"
    /\ pc = "init"
    /\ Idle

\* conf = self._update(conf, custom_conf)
CallUpdate ==
    /\ cmd = "_update" /\ pc = "init"
    /\ rc' = _update(args.source, args.update)
    /\ pc' = "merged"
    /\ UNCHANGED <<vms, fs, warned, args, conf, cloud_config, cmd, vbox, locals,
                   calls>>

SpecMerge == InitMerge /\ [][CallUpdate]_vars

-----------------------------------------------------------------------------
(* Spec: one invocation of create, rebuild or destroy against VirtualBox.  *)
(* Every external command may fail; a KeyboardInterrupt may arrive while   *)
(* vmcreate waits for the guest.                                           *)

MaxDraws == 2      \* random.randint yields one of the first MaxDraws ports
MaxFailures == 1   \* at most this many external commands fail

\* the outcomes of random.randint(2000, 2999) the model follows
randint(lo, hi) == {p \in lo..hi : p < lo + MaxDraws}

FEDORA_RELEASE_MAP == {"32", "33", "34"}

\* int(x) on a str given by its characters: ValueError unless every
\* character is a decimal digit.  The characters of the sizes are "0", "1",
\* "2", letters, and "half" for the one character VULGAR FRACTION ONE HALF,
\* for which str.isnumeric is true and which int() does not take
RECURSIVE int(_)
int(chars) ==
    LET value == [c \in {"0", "1", "2"} |->
                     IF c = "0" THEN 0 ELSE IF c = "1" THEN 1 ELSE 2]
        last == chars[Len(chars)]
        front == IF Len(chars) = 1 THEN I(0) ELSE int(SubSeq(chars, 1, Len(chars) - 1))
    IN  IF chars = <<>> \/ last \notin DOMAIN value \/ front[1] = "raise"
        THEN Raise("ValueError")
        ELSE I(10 * front[2] + value[last])

\* str(n) of an int that is not negative, as its characters
RECURSIVE digits(_)
digits(n) ==
    LET digit == <<"0", "1", "2", "3", "4", "5", "6", "7", "8", "9">> IN
    IF n < 10 THEN <<digit[n + 1]>>
    ELSE digits(n \div 10) \o <<digit[(n % 10) + 1]>>

\* convert_to_mega.  A size of the VMs of the model is a str of digits and
\* is returned as it is; a size given by its characters goes through the
\* five tests in their order, each overwriting the result
convert_to_mega(size) ==
    IF size[1] = "num" THEN size
    ELSE IF size[1] # "chars" THEN None
    ELSE LET s == size[2]
             isnumeric(x) == x # <<>> /\ \A i \in DOMAIN x :
                                            x[i] \in {"0", "1", "2", "half"}
             lower(c) == CASE c = "M" -> "m" [] c = "G" -> "g"
                           [] c = "B" -> "b" [] OTHER -> c
             cut(n) == SubSeq(s, 1, Len(s) - n)
             endswith(suffix) ==
                 /\ Len(s) >= Len(suffix)
                 /\ \A i \in DOMAIN suffix :
                       lower(s[Len(s) - Len(suffix) + i]) = suffix[i]
             times1024(x) == IF int(x)[1] = "raise" THEN int(x)
                             ELSE <<"chars", digits(int(x)[2] * 1024)>>
             r1 == IF isnumeric(s) THEN <<"chars", s>> ELSE None
             r2 == IF endswith(<<"m">>) /\ isnumeric(cut(1))
                   THEN <<"chars", cut(1)>> ELSE r1
             r3 == IF endswith(<<"g">>) /\ isnumeric(cut(1))
                   THEN times1024(cut(1)) ELSE r2
             r4 == IF r3[1] = "raise" THEN r3
                   ELSE IF endswith(<<"m", "b">>) /\ isnumeric(cut(2))
                   THEN <<"chars", cut(2)>> ELSE r3
         IN  IF r4[1] = "raise" THEN r4
             ELSE IF endswith(<<"g", "b">>) /\ isnumeric(cut(2))
             THEN times1024(cut(2)) ELSE r4

\* IsoImage.get_generated_image: the config drive in its temporary directory
IsoPath == P(<<"/", "tmp", "boxpy_iso", "ci.iso">>)

\* other machines of the registry; web-1 is as a create of boxpy left it,
\* with its config drive recorded and in the drive
VmWeb ==
    [Machine("u-web", N(1), N(1024),
             [creator |-> S("boxpy"), iso_path |-> IsoPath],
             <<Rule("boxpyssh", 2222, 22), Rule("custom-pf-1", 2000, 80)>>,
             <<Disk("w.vdi", 6144)>>)
       EXCEPT !.dvd = <<[type |-> "DVD", location |-> "ci.iso", size |-> 0]>>]

VmDb ==
    Machine("u-db", N(1), N(1024), [creator |-> S("boxpy")],
            <<Rule("boxpyssh", 2222, 22)>>, <<Disk("b.vdi", 6144)>>)

VmTwoDisks ==
    [VmCentos EXCEPT !.uuid = "u-two",
                     !.hdds = <<Disk("d.vdi", 10240), Disk("e.vdi", 512)>>]

TargetVMs == <<NoVM, VmCentos, VmWithUserData, VmCustom, VmBare, VmTwoDisks>>

OtherVMs == <<NoVM, VmWeb, VmDb>>

\* the command lines of create and rebuild: options of CliOptions
CommandLines == <<{}, {13}, {2}, {4}, {7}, {6, 10}, {5, 14}, {3}>>

\* the name lists of destroy
DestroyLines == << <<"dev">>, <<"web-1", "dev">> >>

Failures == Cardinality({i \in DOMAIN calls : ~calls[i].ok})

\* the return codes an external command can give: success, or a failure
Oks == IF Failures < MaxFailures THEN BOOLEAN ELSE {TRUE}

\* Run([...]) of a command that changes something
Call(op, ok) ==
    calls' = Append(calls, [op |-> op, vm |-> vbox.name[2], ok |-> ok])

Init ==
    /\ \E v \in DOMAIN TargetVMs, w \in DOMAIN OtherVMs, r \in BOOLEAN,
          keys \in {KeyPaths, {}}, d \in {0, 4, 5, 6} :
          /\ vms = [x \in VMNames |->
                       IF x = "dev"
                       THEN [TargetVMs[v] EXCEPT
                                !.running = r /\ TargetVMs[v].registered]
                       ELSE IF x = "web-1" THEN OtherVMs[w] ELSE NoVM]
          /\ fs = FileSystem(keys, d)
    /\ args = MkArgs("dev", {})
    /\ conf = NewConfig(args)
    /\ cmd = "main"
    /\ pc = "main"
    /\ Idle

\* main(): parse_args and args.func(args)
Dispatch ==
    /\ pc = "main"
    /\ \/ \E i \in DOMAIN CommandLines :
             /\ args' = MkArgs("dev", CommandLines[i])
             /\ cmd' \in {"create", "rebuild"}
             /\ pc' = cmd'
             /\ todo' = todo
       \/ \E i \in DOMAIN DestroyLines :
             /\ args' = [name |-> L([j \in DOMAIN DestroyLines[i] |->
                                        S(DestroyLines[i][j])])]
             /\ cmd' = "destroy"
             /\ pc' = "vmdestroy"
             /\ todo' = DestroyLines[i]
       \/ /\ args' = [name |-> S("dev")]
          /\ cmd' \in {"start", "stop"}
          /\ pc' = "set_vmstate"
          /\ todo' = todo
    /\ conf' = NewConfig(MkArgs("dev", {}))
    /\ UNCHANGED <<vms, fs, warned, cloud_config, rc, vbox, username, out, switches,
                   tmp, path_to_disk, disk_path, used_ports, ret, calls>>

\* `return code` of vmcreate: to main(), or to vmrebuild
CreateReturn(code) ==
    /\ rc' = I(code)
    /\ pc' = IF cmd = "rebuild" THEN "rebuild_return" ELSE "done"

\* a handler that swallows the exception and reports success
Swallowed(e) ==
    /\ rc' = I(0)
    /\ pc' = "done"

\* an exception nothing catches: it ends the process
Uncaught(e) ==
    /\ rc' = Raise(e)
    /\ pc' = "done"

\* vmcreate, lines 1174-1183: conf = Config(args)
VmCreateConfig ==
    /\ pc = "create"
    /\ LET c == Config(args, EmptyDict, fs) IN
       /\ conf' = c
       /\ CASE c.error = "ok" -> pc' = "create_port" /\ rc' = rc
            [] c.error = "BoxConfError" -> CreateReturn(7)
            [] c.error = "YAMLError" -> CreateReturn(14)
            [] OTHER -> Uncaught(c.error)
    /\ UNCHANGED <<vms, fs, warned, args, cloud_config, cmd, vbox, locals, calls>>

\* self.get_vm_info() on a VBoxManage object: vm_info is replaced when
\* showvminfo succeeds and kept when it fails
RefreshInfo(vb) ==
    [vb EXCEPT !.vm_info = IF vms[vb.name[2]].registered
                           THEN get_vm_info(vms[vb.name[2]]) ELSE @]

\* VBoxManage._get_defined_ports, after its get_vm_info(): for every other
\* VM of `list vms`, used_ports[vm_name] is assigned once per Forwarding
\* rule, so that the hostport of the last rule stays
_get_defined_ports(vb) ==
    [n \in {x \in VMNames : /\ vms[x].registered
                            /\ S(vms[x].uuid) # Get(vb.vm_info, "uuid")
                            /\ vms[x].rules # <<>>} |->
        N(vms[n].rules[Len(vms[n].rules)].hostport)]

\* VBoxManage.is_port_in_use: the name of a VM, or False
is_port_in_use(ports, port) ==
    IF \E n \in DOMAIN ports : ports[n] = port
    THEN S(CHOOSE n \in DOMAIN ports : ports[n] = port)
    ELSE B(FALSE)

\* vmcreate, lines 1186-1192: the check of a given port
VmCreateCheckPort ==
    /\ pc = "create_port"
    /\ LET vb == VBoxManage(conf.name) IN
       IF Truthy(conf.port)
       THEN /\ vbox' = RefreshInfo(vb)
            /\ used_ports' = _get_defined_ports(vbox')
            /\ IF Truthy(is_port_in_use(used_ports', conf.port))
               THEN CreateReturn(1)
               ELSE pc' = "createvm" /\ rc' = rc
       ELSE /\ vbox' = vb
            /\ pc' = "createvm"
            /\ UNCHANGED <<used_ports, rc>>
    /\ UNCHANGED <<vms, fs, warned, args, conf, cloud_config, cmd, username, out,
                   switches, tmp, path_to_disk, disk_path, todo, ret, calls>>

\* the machine `createvm --register` makes
NewMachine(uuid) ==
    [Machine(uuid, None, N(128), EmptyDict, <<>>, <<>>) EXCEPT
        !.controllers = {}]

\* VBoxManage.create, lines 738-757: createvm.  VirtualBox refuses a name
\* that is registered; it may register a VM and warn, or print no UUID
CreateVm ==
    /\ pc = "createvm"
    /\ \E res \in {"fail", "warning", "nouuid", "ok"} :
          /\ IF vms[vbox.name[2]].registered THEN res = "fail"
             ELSE res # "ok" => FALSE \in Oks
          /\ Call("createvm", res = "ok")
          /\ CASE res = "fail" ->
                    /\ CreateReturn(2)
                    /\ UNCHANGED <<vms, vbox>>
               [] res = "warning" ->
                    /\ vms' = [vms EXCEPT ![vbox.name[2]] =
                                  [NewMachine("u-new") EXCEPT !.crippled = TRUE]]
                    /\ CreateReturn(2)
                    /\ vbox' = vbox
               [] res = "nouuid" ->
                    /\ vms' = [vms EXCEPT ![vbox.name[2]] = NewMachine("u-new")]
                    /\ Uncaught("BoxVBoxFailure")
                    /\ vbox' = vbox
               [] res = "ok" ->
                    /\ vms' = [vms EXCEPT ![vbox.name[2]] = NewMachine("u-new")]
                    /\ vbox' = [vbox EXCEPT !.uuid = S("u-new")]
                    /\ pc' = IF Truthy(conf.port) THEN "modifyvm" ELSE "scan"
                    /\ rc' = rc
    /\ UNCHANGED <<fs, warned, args, conf, cloud_config, cmd, locals>>

\* VBoxManage._find_unused_port, line 867: the scan of the ports in use
ScanPorts ==
    /\ pc = "scan"
    /\ vbox' = RefreshInfo(vbox)
    /\ used_ports' = _get_defined_ports(vbox')
    /\ pc' = "draw"
    /\ UNCHANGED <<vms, fs, warned, args, conf, cloud_config, cmd, rc, username, out,
                   switches, tmp, path_to_disk, disk_path, todo, ret, calls>>

\* a loop that compares the drawn port with the ports as it should
DrawPortCompared ==
    /\ pc = "draw"
    /\ \E port \in randint(2000, 2999) :
          IF \A n \in DOMAIN used_ports : used_ports[n] # N(port)
          THEN /\ vbox' = [vbox EXCEPT !.vm_info = Put(@, "port", I(port))]
               /\ pc' = "modifyvm"
          ELSE UNCHANGED <<vbox, pc>>
    /\ UNCHANGED <<vms, fs, warned, args, conf, cloud_config, cmd, rc, locals,
                   calls>>

\* VBoxManage._find_unused_port, lines 869-873: one turn of the loop.  The
\* drawn port is an int, the values of used_ports are str
DrawPort ==
    /\ pc = "draw"
    /\ \E port \in randint(2000, 2999) :
          IF \A n \in DOMAIN used_ports : used_ports[n] # I(port)
          THEN /\ vbox' = [vbox EXCEPT !.vm_info = Put(@, "port", I(port))]
               /\ pc' = "modifyvm"
          ELSE UNCHANGED <<vbox, pc>>
    /\ UNCHANGED <<vms, fs, warned, args, conf, cloud_config, cmd, rc, locals, calls>>

\* the natpf1 rules of the modifyvm command, lines 768-771
RECURSIVE CustomRules(_, _)
CustomRules(items, count) ==
    IF items = <<>> THEN <<>>
    ELSE <<Rule(IF count = 1 THEN "custom-pf-1"
                ELSE IF count = 2 THEN "custom-pf-2" ELSE "custom-pf-n",
                Head(items)[1], Head(items)[2])>>
         \o CustomRules(Tail(items), count + 1)

\* VBoxManage.create, lines 759-776: modifyvm
ModifyVm ==
    /\ pc = "modifyvm"
    /\ LET port == IF Truthy(conf.port) THEN conf.port ELSE vbox.vm_info["port"]
           memory == convert_to_mega(conf.memory)
       IN  \E ok \in Oks :
              /\ memory = None => ~ok
              /\ Call("modifyvm", ok)
              /\ IF ok
                 THEN /\ vms' = [vms EXCEPT ![vbox.name[2]] =
                                    [@ EXCEPT !.memory = memory,
                                              !.cpus = str(conf.cpus),
                                              !.rules =
                                                  <<Rule("boxpyssh", port[2], 22)>>
                                                  \o CustomRules(conf.forwarding[2], 1)]]
                      /\ pc' = IF conf.disable_nested = S("False")
                               THEN "nested" ELSE "ctl_ide"
                      /\ rc' = rc
                 ELSE /\ Uncaught("BoxVBoxFailure")
                      /\ vms' = vms
    /\ UNCHANGED <<fs, warned, args, conf, cloud_config, cmd, vbox, locals>>

\* VBoxManage.create, lines 778-783: nested virtualization
Nested ==
    /\ pc = "nested"
    /\ \E ok \in Oks :
          /\ Call("modifyvm --nested-hw-virt", ok)
          /\ IF ok THEN pc' = "ctl_ide" /\ rc' = rc
             ELSE Uncaught("BoxVBoxFailure")
    /\ UNCHANGED <<vms, fs, warned, args, conf, cloud_config, cmd, vbox, locals>>

\* a controller step that takes the VM back when storagectl fails
create_controller_or_undo(name, next, code) ==
    /\ \E ok \in Oks :
          /\ Call("storagectl", ok)
          /\ IF ok
             THEN /\ vms' = [vms EXCEPT ![vbox.name[2]].controllers =
                                @ \cup {name}]
                  /\ pc' = next
                  /\ rc' = rc
             ELSE /\ CreateReturn(code)
                  /\ vms' = [vms EXCEPT ![vbox.name[2]] = NoVM]
    /\ UNCHANGED <<fs, warned, args, conf, cloud_config, cmd, vbox, locals>>

\* VBoxManage.create_controller, as vmcreate calls it at lines 1197-1200
create_controller(name, next, code) ==
    /\ \E ok \in Oks :
          /\ Call("storagectl", ok)
          /\ IF ok
             THEN /\ vms' = [vms EXCEPT ![vbox.name[2]].controllers =
                                @ \cup {name}]
                  /\ pc' = next
                  /\ rc' = rc
             ELSE /\ CreateReturn(code)
                  /\ vms' = vms
    /\ UNCHANGED <<fs, warned, args, conf, cloud_config, cmd, vbox, locals>>

\* vmcreate, lines 1197-1198
CreateIde == pc = "ctl_ide" /\ create_controller("IDE", "ctl_sata", 3)

\* vmcreate, lines 1199-1200
CreateSata == pc = "ctl_sata" /\ create_controller("SATA", "xd_distro", 4)

\* the keys of the loop at line 1202 and the positions of its turns
XdKeys == <<"distro", "hostname", "key", "version", "image", "username">>

XdPc == <<"xd_distro", "xd_hostname", "xd_key", "xd_version", "xd_image",
          "xd_username", "xd_user_data">>

\* vmcreate, lines 1202-1206: one turn of the loop over the attributes
PersistAttribute ==
    \E i \in DOMAIN XdKeys :
        /\ pc = XdPc[i]
        /\ IF conf[XdKeys[i]] = None
           THEN /\ pc' = XdPc[i + 1]
                /\ UNCHANGED <<vms, rc, calls>>
           ELSE \E ok \in Oks :
                   /\ Call("setextradata", ok)
                   /\ IF ok
                      THEN /\ vms' = [vms EXCEPT ![vbox.name[2]].extradata =
                                         Put(@, XdKeys[i], conf[XdKeys[i]])]
                           /\ pc' = XdPc[i + 1]
                           /\ rc' = rc
                      ELSE /\ CreateReturn(5)
                           /\ vms' = vms
        /\ UNCHANGED <<fs, warned, args, conf, cloud_config, cmd, vbox, locals>>

\* vmcreate, lines 1208-1210
PersistUserData ==
    /\ pc = "xd_user_data"
    /\ IF ~Truthy(conf.user_data)
       THEN /\ pc' = "xd_creator"
            /\ UNCHANGED <<vms, rc, calls>>
       ELSE \E ok \in Oks :
               /\ Call("setextradata", ok)
               /\ IF ok
                  THEN /\ vms' = [vms EXCEPT ![vbox.name[2]].extradata =
                                     Put(@, "user_data", conf.user_data)]
                       /\ pc' = "xd_creator"
                       /\ rc' = rc
                  ELSE /\ CreateReturn(6)
                       /\ vms' = vms
    /\ UNCHANGED <<fs, warned, args, conf, cloud_config, cmd, vbox, locals>>

\* vmcreate, lines 1212-1213
PersistCreator ==
    /\ pc = "xd_creator"
    /\ \E ok \in Oks :
          /\ Call("setextradata", ok)
          /\ IF ok
             THEN /\ vms' = [vms EXCEPT ![vbox.name[2]].extradata =
                                Put(@, "creator", S("boxpy"))]
                  /\ pc' = "image"
                  /\ rc' = rc
             ELSE /\ CreateReturn(13)
                  /\ vms' = vms
    /\ UNCHANGED <<fs, warned, args, conf, cloud_config, cmd, vbox, locals>>

\* get_image_object and Image.convert_to_vdi up to convertfromraw: the
\* download, the conversion to raw and the conversion to VDI
ConvertImage ==
    /\ pc = "image"
    /\ IF \/ ~KnownDistro(conf)
          \/ conf.distro = S("fedora") /\ conf.version[2] \notin FEDORA_RELEASE_MAP
       THEN /\ Uncaught("KeyError")
            /\ UNCHANGED <<tmp, calls>>
       ELSE /\ tmp' = tmp \cup {"image"}
            /\ \E ok \in Oks :
                  /\ Call("convert_to_vdi", ok)
                  /\ IF ok THEN pc' = "resize" /\ rc' = rc
                     ELSE CreateReturn(21)
    /\ UNCHANGED <<vms, fs, warned, args, conf, cloud_config, cmd, vbox, username, out,
                   switches, path_to_disk, disk_path, todo, used_ports, ret>>

\* VBoxManage.move_and_resize_image, with _get_vm_config which asks for the
\* VM's info when none is held
MoveAndResize ==
    /\ pc = "resize"
    /\ vbox' = IF Truthy(Get(vbox.vm_info, "config_file")) THEN vbox
               ELSE RefreshInfo(vbox)
    /\ LET size == convert_to_mega(conf.disk_size) IN
       \E ok \in Oks :
          /\ size = None => ~ok
          /\ Call("modifymedium", ok)
          /\ IF ok
             THEN /\ path_to_disk' = Disk(conf.name[2] \o ".vdi", size[2])
                  /\ pc' = "iso"
                  /\ rc' = rc
             ELSE /\ Uncaught("BoxVBoxFailure")
                  /\ path_to_disk' = path_to_disk
    /\ UNCHANGED <<vms, fs, warned, args, conf, cloud_config, cmd, username, out,
                   switches, tmp, disk_path, todo, used_ports, ret>>

\* IsoImage(conf) and IsoImage.get_generated_image, lines 1221-1224
MakeIso ==
    /\ pc = "iso"
    /\ tmp' = tmp \cup {"iso"}
    /\ cloud_config' = get_cloud_config(conf, fs)
    /\ IF cloud_config'[1] = "raise"
       THEN /\ Uncaught(cloud_config'[2])
            /\ calls' = calls
       ELSE \E ok \in Oks :
               /\ Call("mkisofs", ok)
               /\ IF ok THEN pc' = "xd_iso_path" /\ rc' = rc
                  ELSE CreateReturn(12)
    /\ UNCHANGED <<vms, fs, warned, args, conf, cmd, vbox, username, out, switches,
                   path_to_disk, disk_path, todo, used_ports, ret>>

\* vmcreate, line 1225: the result of setextradata is not looked at
PersistIsoPath ==
    /\ pc = "xd_iso_path"
    /\ \E ok \in Oks :
          /\ Call("setextradata", ok)
          /\ vms' = IF ok THEN [vms EXCEPT ![vbox.name[2]].extradata =
                                   Put(@, "iso_path", IsoPath)]
                    ELSE vms
    /\ pc' = "attach_hdd"
    /\ UNCHANGED <<fs, warned, args, conf, cloud_config, cmd, rc, vbox, locals>>

\* vmcreate, line 1226: the result of storageattach is not looked at
AttachDisk ==
    /\ pc = "attach_hdd"
    /\ \E ok \in Oks :
          /\ Call("storageattach hdd", ok)
          /\ vms' = IF ok THEN [vms EXCEPT ![vbox.name[2]].hdds = <<path_to_disk>>]
                    ELSE vms
    /\ pc' = "attach_dvd"
    /\ UNCHANGED <<fs, warned, args, conf, cloud_config, cmd, rc, vbox, locals>>

\* vmcreate, line 1227: the result of storageattach is not looked at
AttachIso ==
    /\ pc = "attach_dvd"
    /\ \E ok \in Oks :
          /\ Call("storageattach dvddrive", ok)
          /\ vms' = IF ok THEN [vms EXCEPT ![vbox.name[2]].dvd =
                                   <<[type |-> "DVD", location |-> "ci.iso",
                                      size |-> 0]>>]
                    ELSE vms
    /\ pc' = "nics"
    /\ UNCHANGED <<fs, warned, args, conf, cloud_config, cmd, rc, vbox, locals>>

\* key.startswith('nic') on the keys of the model
startswith_nic(key) == key \in {"nic1", "nic2", "nic3", "nic4"}

\* vmcreate, lines 1230-1233: the network cards of boxpy_data.advanced
AddNics ==
    /\ pc = "nics"
    /\ IF /\ Truthy(conf.advanced)
          /\ \E key \in DOMAIN conf.advanced[2] : startswith_nic(key)
       THEN \E ok \in Oks :
               /\ Call("modifyvm --nic", ok)
               /\ IF ok THEN pc' = "poweron" /\ rc' = rc
                  ELSE Uncaught("BoxVBoxFailure")
       ELSE /\ pc' = "poweron"
            /\ UNCHANGED <<rc, calls>>
    /\ UNCHANGED <<vms, fs, warned, args, conf, cloud_config, cmd, vbox, locals>>

\* vmcreate, lines 1236-1249: poweron, and the user and port of the probe
PowerOn ==
    /\ pc = "poweron"
    /\ \E ok \in Oks :
          /\ Call("startvm", ok)
          /\ IF ~ok
             THEN /\ Uncaught("BoxVBoxFailure")
                  /\ UNCHANGED <<vms, username>>
             ELSE /\ vms' = [vms EXCEPT ![vbox.name[2]].running = TRUE]
                  /\ IF "port" \in DOMAIN vbox.vm_info
                     THEN /\ username' = DistroUsername(conf)
                          /\ pc' = "probe"
                          /\ rc' = rc
                     ELSE /\ Uncaught("KeyError")
                          /\ username' = username
    /\ UNCHANGED <<fs, warned, args, conf, cloud_config, cmd, vbox, out, switches,
                   tmp, path_to_disk, disk_path, todo, used_ports, ret>>

\* what `ssh ... sudo cloud-init status` can answer: nothing (the guest is
\* not up), status: running, nothing and 'Permission denied (publickey)' on
\* stderr, status: done, another status, a line without a colon
Answers == {"none", "running", "denied", "done", "error", "garbage"}

\* vmcreate, line 1251: out = Run(cmd)
RunProbe ==
    /\ pc = "probe"
    /\ out' \in Answers
    /\ pc' = "probed"
    /\ UNCHANGED <<vms, fs, warned, args, conf, cloud_config, cmd, rc, vbox, username,
                   switches, tmp, path_to_disk, disk_path, todo, used_ports,
                   ret, calls>>

\* a loop that never finds another user to try
has_alternate_never(c, user) == FALSE

\* a loop that tries conf.username again and again
has_alternate_again(c, user) == Truthy(c.username)

\* vmcreate, line 1259: `conf.username and conf.username != username`
has_alternate(c, user) == Truthy(c.username) /\ c.username # user

\* vmcreate, lines 1254-1278: what the loop does with the answer
HandleProbe ==
    /\ pc = "probed"
    /\ CASE out \in {"none", "running"} ->
              /\ pc' = "sleep"
              /\ UNCHANGED <<vms, rc, username, switches, ret, warned, calls>>
         [] out = "denied" ->
              IF has_alternate(conf, username)
              THEN /\ username' = conf.username
                   /\ switches' = switches + 1
                   /\ \E ok \in Oks :
                         /\ Call("setextradata", ok)
                         /\ vms' = IF ok
                                   THEN [vms EXCEPT ![vbox.name[2]].extradata =
                                            Put(@, "username", conf.username)]
                                   ELSE vms
                   /\ pc' = "probe"
                   /\ UNCHANGED <<rc, ret, warned>>
              ELSE /\ pc' = "rollback"
                   /\ ret' = "PermissionError"
                   /\ UNCHANGED <<vms, rc, username, switches, warned, calls>>
         [] out \in {"done", "error"} ->
              /\ pc' = "cleanup"
              /\ warned' = IF out # "done" THEN out ELSE warned
              /\ UNCHANGED <<vms, rc, username, switches, ret, calls>>
         [] out = "garbage" ->
              /\ Uncaught("IndexError")
              /\ UNCHANGED <<vms, username, switches, ret, warned, calls>>
    /\ UNCHANGED <<fs, args, conf, cloud_config, cmd, vbox, out, tmp,
                   path_to_disk, disk_path, todo, used_ports>>

\* a wait that gives up when a deadline has passed
SleepUntilDeadline ==
    /\ pc = "sleep"
    /\ \E late \in BOOLEAN :
          /\ pc' = IF late THEN "rollback" ELSE "probe"
          /\ ret' = IF late THEN "PermissionError" ELSE ret
    /\ UNCHANGED <<vms, fs, warned, args, conf, cloud_config, cmd, rc, vbox,
                   username, out, switches, tmp, path_to_disk, disk_path, todo,
                   used_ports, calls>>

\* vmcreate, line 1268: time.sleep(3)
Sleep ==
    /\ pc = "sleep"
    /\ pc' = "probe"
    /\ UNCHANGED <<vms, fs, warned, args, conf, cloud_config, cmd, rc, vbox, locals,
                   calls>>

\* a KeyboardInterrupt inside the try block of vmcreate
Interrupt ==
    /\ pc \in {"probe", "probed", "sleep"}
    /\ pc' = "rollback"
    /\ ret' = "KeyboardInterrupt"
    /\ UNCHANGED <<vms, fs, warned, args, conf, cloud_config, cmd, rc, vbox, username,
                   out, switches, tmp, path_to_disk, disk_path, todo,
                   used_ports, calls>>

\* a rollback that forgets the temporary directory of the boot image
RollbackIsoOnly ==
    /\ pc = "rollback"
    /\ tmp' = tmp \ {"iso"}
    /\ pc' = "d_info"
    /\ UNCHANGED <<vms, fs, warned, args, conf, cloud_config, cmd, rc, vbox, username,
                   out, switches, path_to_disk, disk_path, todo, used_ports,
                   ret, calls>>

\* vmcreate, lines 1282-1283 and 1288-1289: iso.cleanup(), image.cleanup(),
\* before vbox.destroy()
Rollback ==
    /\ pc = "rollback"
    /\ tmp' = {}
    /\ pc' = "d_info"
    /\ UNCHANGED <<vms, fs, warned, args, conf, cloud_config, cmd, rc, vbox, username,
                   out, switches, path_to_disk, disk_path, todo, used_ports,
                   ret, calls>>

\* `return code` of vmdestroy: to main(), or to vmrebuild, which goes on with
\* vmcreate(args, conf) whatever the code
VmDestroyReturn(code) ==
    /\ rc' = I(code)
    /\ pc' = IF cmd = "rebuild" THEN "create_port" ELSE "done"

\* `return res` of VBoxManage.destroy: to the except clauses of vmcreate,
\* which do not look at it, or to the loop of vmdestroy
DestroyReturn(res) ==
    CASE ret = "PermissionError" -> Uncaught("PermissionError")
      [] ret = "KeyboardInterrupt" -> CreateReturn(1)
      [] ret = "vmdestroy" ->
           IF Truthy(res) THEN VmDestroyReturn(res[2])
           ELSE pc' = "vmdestroy" /\ rc' = rc

\* VBoxManage.destroy, lines 720-724
DestroyInfo ==
    /\ pc = "d_info"
    /\ vbox' = RefreshInfo(vbox)
    /\ IF DOMAIN vbox'.vm_info = {} THEN DestroyReturn(I(4))
       ELSE pc' = "d_poweroff" /\ rc' = rc
    /\ UNCHANGED <<vms, fs, warned, args, conf, cloud_config, cmd, locals, calls>>

\* VBoxManage.poweroff: VirtualBox refuses it for a VM that is not running;
\* nobody looks at the result
poweroff(next) ==
    /\ \E ok \in Oks :
          /\ Call("poweroff", ok)
          /\ vms' = IF ok THEN [vms EXCEPT ![vbox.name[2]].running = FALSE]
                    ELSE vms
    /\ pc' = next
    /\ UNCHANGED <<fs, warned, args, conf, cloud_config, cmd, rc, vbox, locals>>

\* VBoxManage.destroy, line 726
DestroyPoweroff == pc = "d_poweroff" /\ poweroff("d_detach")

\* VBoxManage.destroy, line 729: the config drive is taken out of the drive
DestroyDetach ==
    /\ pc = "d_detach"
    /\ \E ok \in Oks :
          /\ Call("storageattach none", ok)
          /\ vms' = IF ok THEN [vms EXCEPT ![vbox.name[2]].dvd = <<>>] ELSE vms
    /\ pc' = "d_close"
    /\ UNCHANGED <<fs, warned, args, conf, cloud_config, cmd, rc, vbox, locals>>

\* a destroy that releases a medium whether or not a path is recorded
DestroyCloseMediumAlways ==
    /\ pc = "d_close"
    /\ \E ok \in Oks : Call("closemedium", ok)
    /\ pc' = "d_unregister"
    /\ UNCHANGED <<vms, fs, warned, args, conf, cloud_config, cmd, rc, vbox, locals>>

\* VBoxManage.destroy, lines 730-731
DestroyCloseMedium ==
    /\ pc = "d_close"
    /\ IF Truthy(Get(vbox.vm_info, "iso_path"))
       THEN \E ok \in Oks : Call("closemedium", ok)
       ELSE calls' = calls
    /\ pc' = "d_unregister"
    /\ UNCHANGED <<vms, fs, warned, args, conf, cloud_config, cmd, rc, vbox, locals>>

\* VBoxManage.destroy, lines 732-735: unregistervm --delete
DestroyUnregister ==
    /\ pc = "d_unregister"
    /\ \E ok \in Oks :
          /\ Call("unregistervm", ok)
          /\ IF ok
             THEN /\ vms' = [vms EXCEPT ![vbox.name[2]] = NoVM]
                  /\ DestroyReturn(None)
             ELSE /\ vms' = vms
                  /\ DestroyReturn(I(7))
    /\ UNCHANGED <<fs, warned, args, conf, cloud_config, cmd, vbox, locals>>

\* a cleanup that forgets the temporary directory of the boot image
CleanupIsoOnly ==
    /\ pc = "cleanup"
    /\ tmp' = tmp \ {"iso"}
    /\ pc' = "reread"
    /\ UNCHANGED <<vms, fs, warned, args, conf, cloud_config, cmd, rc, vbox,
                   username, out, switches, path_to_disk, disk_path, todo,
                   used_ports, ret, calls>>

\* vmcreate, lines 1294-1295: iso.cleanup(), image.cleanup()
Cleanup ==
    /\ pc = "cleanup"
    /\ tmp' = {}
    /\ pc' = "reread"
    /\ UNCHANGED <<vms, fs, warned, args, conf, cloud_config, cmd, rc, vbox, username,
                   out, switches, path_to_disk, disk_path, todo, used_ports,
                   ret, calls>>

\* vmcreate, lines 1298-1309: conf = Config(args, vbox), and return 0
Reread ==
    /\ pc = "reread"
    /\ vbox' = RefreshInfo(vbox)
    /\ conf' = Config(args, get_vm_info(vms[vbox.name[2]]), fs)
    /\ IF conf'.error # "ok" THEN Uncaught(conf'.error)
       ELSE IF ~KnownDistro(conf') THEN Uncaught("KeyError")
       ELSE CreateReturn(0)
    /\ UNCHANGED <<vms, fs, warned, args, cloud_config, cmd, locals, calls>>

\* a loop that passes over a name that does not exist
VmDestroySkipping ==
    /\ pc = "vmdestroy"
    /\ IF todo = <<>>
       THEN /\ VmDestroyReturn(0)
            /\ UNCHANGED <<vbox, todo, ret>>
       ELSE LET vb == RefreshInfo(VBoxManage(S(Head(todo)))) IN
            /\ vbox' = VBoxManage(S(Head(todo)))
            /\ todo' = Tail(todo)
            /\ ret' = "vmdestroy"
            /\ pc' = IF DOMAIN vb.vm_info = {} THEN "vmdestroy" ELSE "d_info"
            /\ rc' = rc
    /\ UNCHANGED <<vms, fs, warned, args, conf, cloud_config, cmd, username, out,
                   switches, tmp, path_to_disk, disk_path, used_ports, calls>>

\* vmdestroy, lines 1318-1327: one turn of the loop over the names
VmDestroy ==
    /\ pc = "vmdestroy"
    /\ IF todo = <<>>
       THEN /\ VmDestroyReturn(0)
            /\ UNCHANGED <<vbox, todo, ret>>
       ELSE LET vb == RefreshInfo(VBoxManage(S(Head(todo)))) IN
            IF DOMAIN vb.vm_info = {}
            THEN /\ VmDestroyReturn(18)
                 /\ vbox' = vb
                 /\ UNCHANGED <<todo, ret>>
            ELSE /\ vbox' = VBoxManage(S(Head(todo)))
                 /\ todo' = Tail(todo)
                 /\ ret' = "vmdestroy"
                 /\ pc' = "d_info"
                 /\ rc' = rc
    /\ UNCHANGED <<vms, fs, warned, args, conf, cloud_config, cmd, username, out,
                   switches, tmp, path_to_disk, disk_path, used_ports, calls>>

\* vmrebuild, lines 1414-1428: the VM must exist; conf = Config(args, vbox)
VmRebuildConfig ==
    /\ pc = "rebuild"
    /\ vbox' = RefreshInfo(VBoxManage(args["name"]))
    /\ IF DOMAIN vbox'.vm_info = {}
       THEN /\ rc' = I(20)
            /\ pc' = "done"
            /\ conf' = conf
       ELSE /\ conf' = Config(args, vbox'.vm_info, fs)
            /\ CASE conf'.error = "ok" -> pc' = "rebuild_poweroff" /\ rc' = rc
                 [] conf'.error = "BoxNotFound" -> rc' = I(8) /\ pc' = "done"
                 [] conf'.error = "YAMLError" -> rc' = I(15) /\ pc' = "done"
                 [] OTHER -> Uncaught(conf'.error)
    /\ UNCHANGED <<vms, fs, warned, args, cloud_config, cmd, locals, calls>>

\* vmrebuild, line 1430
VmRebuildPoweroff == pc = "rebuild_poweroff" /\ poweroff("rebuild_disk")

\* VBoxManage.get_media_size: the capacity showmediuminfo reports
get_media_size(disk) == N(disk.size)

\* vmrebuild, lines 1432-1446: the disk of the old VM, its size for a conf
\* without one, and vmdestroy(args)
VmRebuildDisk ==
    /\ pc = "rebuild_disk"
    /\ LET hdds == vms[vbox.name[2]].hdds IN
       IF Len(hdds) # 1
       THEN /\ rc' = I(9)
            /\ pc' = "done"
            /\ UNCHANGED <<conf, disk_path, todo>>
       ELSE /\ disk_path' = hdds[1]
            /\ conf' = IF ~Truthy(conf.disk_size)
                       THEN [conf EXCEPT !.disk_size = get_media_size(hdds[1])]
                       ELSE conf
            /\ todo' = <<args["name"][2]>>
            /\ pc' = "vmdestroy"
            /\ rc' = rc
    /\ UNCHANGED <<vms, fs, warned, args, cloud_config, cmd, vbox, username,
                   out, switches, tmp, path_to_disk, used_ports, ret, calls>>

\* vmrebuild, lines 1448-1449: what vmcreate returned is dropped
VmRebuildReturn ==
    /\ pc = "rebuild_return"
    /\ rc' = I(0)
    /\ pc' = "done"
    /\ UNCHANGED <<vms, fs, warned, args, conf, cloud_config, cmd, vbox, locals,
                   calls>>

\* a stop that pulls the plug: the forced poweroff in place of the button
acpipowerbutton_forced(next) ==
    /\ \E ok \in Oks :
          /\ calls' = Append(calls, [op |-> "poweroff", vm |-> vbox'.name[2],
                                     ok |-> ok])
          /\ vms' = IF ok THEN [vms EXCEPT ![vbox'.name[2]].running = FALSE]
                    ELSE vms
    /\ pc' = next

\* VBoxManage.acpipowerbutton: nobody looks at the result; the guest powers
\* off when it handles the button, possibly after the command has ended
acpipowerbutton(next) ==
    /\ \E ok \in Oks :
          /\ calls' = Append(calls, [op |-> "acpipowerbutton",
                                     vm |-> vbox'.name[2], ok |-> ok])
          /\ \E off \in {FALSE, ok} :
                vms' = IF off THEN [vms EXCEPT ![vbox'.name[2]].running = FALSE]
                       ELSE vms
    /\ pc' = next

\* a _set_vmstate that never looks at the run state
already_never(running, state) == FALSE

\* _set_vmstate, lines 1490 and 1494: the VM is in the state asked for
already(running, state) ==
    \/ running /\ state = "start"
    \/ ~running /\ state = "stop"

\* _set_vmstate(name, state), called by vmstart and vmstop
SetVmState ==
    /\ pc = "set_vmstate"
    /\ vbox' = RefreshInfo(VBoxManage(args.name))
    /\ LET vm == vms[args.name[2]] IN
       IF ~vm.registered
       THEN /\ rc' = I(20)
            /\ pc' = "vmstate_return"
            /\ UNCHANGED <<vms, calls>>
       ELSE IF already(vm.running, cmd)
       THEN /\ rc' = None
            /\ pc' = "vmstate_return"
            /\ UNCHANGED <<vms, calls>>
       ELSE IF cmd = "start"
       THEN \E ok \in Oks :
               /\ calls' = Append(calls, [op |-> "startvm", vm |-> args.name[2],
                                          ok |-> ok])
               /\ IF ok
                  THEN /\ vms' = [vms EXCEPT ![args.name[2]].running = TRUE]
                       /\ rc' = None
                       /\ pc' = "vmstate_return"
                  ELSE /\ Uncaught("BoxVBoxFailure")
                       /\ vms' = vms
       ELSE /\ acpipowerbutton("vmstate_return")
            /\ rc' = None
    /\ UNCHANGED <<fs, warned, args, conf, cloud_config, cmd, locals>>

\* vmstart and vmstop: no return statement, the result of _set_vmstate is
\* dropped
VmStateReturn ==
    /\ pc = "vmstate_return"
    /\ rc' = None
    /\ pc' = "done"
    /\ UNCHANGED <<vms, fs, warned, args, conf, cloud_config, cmd, vbox, locals,
                   calls>>

Next ==
    \/ Dispatch
    \/ SetVmState \/ VmStateReturn
    \/ VmCreateConfig \/ VmCreateCheckPort \/ CreateVm \/ ScanPorts \/ DrawPort
    \/ ModifyVm \/ Nested \/ CreateIde \/ CreateSata
    \/ PersistAttribute \/ PersistUserData \/ PersistCreator
    \/ ConvertImage \/ MoveAndResize \/ MakeIso
    \/ PersistIsoPath \/ AttachDisk \/ AttachIso \/ AddNics \/ PowerOn
    \/ RunProbe \/ HandleProbe \/ Sleep \/ Interrupt \/ Rollback
    \/ DestroyInfo \/ DestroyPoweroff \/ DestroyDetach \/ DestroyCloseMedium
    \/ DestroyUnregister
    \/ Cleanup \/ Reread
    \/ VmDestroy
    \/ VmRebuildConfig \/ VmRebuildPoweroff \/ VmRebuildDisk \/ VmRebuildReturn

Spec == Init /\ [][Next]_vars

\* sys.exit(main()): None is status 0, an int is the status, an exception
\* that nothing catches ends the interpreter with status 1
ExitStatus ==
    IF rc = None THEN 0 ELSE IF rc[1] = "raise" THEN 1 ELSE rc[2]

-----------------------------------------------------------------------------
(* SpecAlloc: VBoxManage._find_unused_port for the VM createvm has just    *)
(* registered, against registries that forward the ports randint yields.   *)
(* The loop keeps turning as long as it has not returned.                  *)

InitAlloc ==
    /\ \E reg \in [VMNames \ {"dev"} ->
                     {<<>>, VmWeb.rules}
                     \cup {<<Rule("boxpyssh", p, 22)>> : p \in randint(2000, 2999)}] :
          vms = [x \in VMNames |->
                    IF x = "dev" THEN NewMachine("u-new")
                    ELSE IF reg[x] = <<>> THEN NoVM
                    ELSE [VmDb EXCEPT !.uuid = x, !.rules = reg[x]]]
    /\ fs = FileSystem(KeyPaths, 0)
    /\ args = MkArgs("dev", {})
    /\ conf = Config(args, EmptyDict, fs)
    /\ cmd = "create"
    /\ pc = "scan"
    /\ cloud_config = None
    /\ rc = None
    /\ vbox = [VBoxManage(S("dev")) EXCEPT !.uuid = S("u-new")]
    /\ username = None
    /\ out = "nothing"
    /\ switches = 0
    /\ tmp = {}
    /\ path_to_disk = None
    /\ disk_path = None
    /\ todo = <<>>
    /\ used_ports = EmptyDict
    /\ ret = "none"
    /\ warned = "nothing"
    /\ calls = <<[op |-> "createvm", vm |-> "dev", ok |-> TRUE]>>

NextAlloc == ScanPorts \/ DrawPort

SpecAlloc == InitAlloc /\ [][NextAlloc]_vars /\ WF_vars(DrawPort)

-----------------------------------------------------------------------------
(* SpecRace: two `create` invocations without --port, as two processes of  *)
(* the operating system that share nothing but VirtualBox's registry.      *)
(* Each has registered its VM (createvm) and is about to look for a port;  *)
(* pc, conf, vbox and used_ports hold one value per process.               *)

Procs == {1, 2}

RaceNames == <<"dev", "web-1">>

InitRace ==
    /\ \E rules \in {<<>>, VmWeb.rules}
                    \cup {<<Rule("boxpyssh", p, 22)>> : p \in randint(2000, 2999)} :
          vms = [x \in VMNames |->
                    IF \E p \in Procs : RaceNames[p] = x THEN NewMachine(x)
                    ELSE IF x # "My VM!" \/ rules = <<>> THEN NoVM
                    ELSE [VmDb EXCEPT !.uuid = x, !.rules = rules]]
    /\ fs = FileSystem(KeyPaths, 0)
    /\ args = [p \in Procs |-> MkArgs(RaceNames[p], {})]
    /\ conf = [p \in Procs |-> Config(args[p], EmptyDict, fs)]
    /\ cmd = "create"
    /\ pc = [p \in Procs |-> "scan"]
    /\ cloud_config = None
    /\ rc = None
    /\ vbox = [p \in Procs |->
                 [VBoxManage(S(RaceNames[p])) EXCEPT !.uuid = S(RaceNames[p])]]
    /\ username = None
    /\ out = "nothing"
    /\ switches = 0
    /\ tmp = {}
    /\ path_to_disk = None
    /\ disk_path = None
    /\ todo = <<>>
    /\ used_ports = [p \in Procs |-> EmptyDict]
    /\ ret = "none"
    /\ warned = "nothing"
    /\ calls = <<>>

\* VBoxManage._find_unused_port, line 867, in process p
RaceScan(p) ==
    /\ pc[p] = "scan"
    /\ vbox' = [vbox EXCEPT ![p] = RefreshInfo(@)]
    /\ used_ports' = [used_ports EXCEPT ![p] = _get_defined_ports(vbox'[p])]
    /\ pc' = [pc EXCEPT ![p] = "draw"]
    /\ UNCHANGED <<vms, fs, warned, args, conf, cloud_config, cmd, rc, username,
                   out, switches, tmp, path_to_disk, disk_path, todo, ret, calls>>

\* a loop that books the port in the registry as it takes it
RaceDrawBooking(p) ==
    /\ pc[p] = "draw"
    /\ \E port \in randint(2000, 2999) :
          IF \A n \in DOMAIN used_ports[p] : used_ports[p][n] # I(port)
          THEN /\ vbox' = [vbox EXCEPT ![p].vm_info = Put(@, "port", I(port))]
               /\ vms' = [vms EXCEPT ![RaceNames[p]].rules =
                             <<Rule("boxpyssh", port, 22)>>]
               /\ pc' = [pc EXCEPT ![p] = "modifyvm"]
          ELSE UNCHANGED <<vbox, vms, pc>>
    /\ UNCHANGED <<fs, warned, args, conf, cloud_config, cmd, rc, locals, calls>>

\* VBoxManage._find_unused_port, lines 869-873, in process p: the port is
\* kept in the process's own vm_info and nowhere else
RaceDraw(p) ==
    /\ pc[p] = "draw"
    /\ \E port \in randint(2000, 2999) :
          IF \A n \in DOMAIN used_ports[p] : used_ports[p][n] # I(port)
          THEN /\ vbox' = [vbox EXCEPT ![p].vm_info = Put(@, "port", I(port))]
               /\ pc' = [pc EXCEPT ![p] = "modifyvm"]
          ELSE UNCHANGED <<vbox, pc>>
    /\ UNCHANGED <<vms, fs, warned, args, conf, cloud_config, cmd, rc, locals,
                   calls>>

\* VBoxManage.create, lines 761-776, in process p: modifyvm registers the
\* forwarding rules, or fails and BoxVBoxFailure is raised
RaceModifyVm(p) ==
    /\ pc[p] = "modifyvm"
    /\ \E ok \in BOOLEAN :
          /\ convert_to_mega(conf[p].memory) = None => ~ok
          /\ calls' = Append(calls, [op |-> "modifyvm", vm |-> RaceNames[p],
                                     ok |-> ok])
          /\ IF ok
             THEN /\ vms' = [vms EXCEPT ![RaceNames[p]] =
                                [@ EXCEPT !.memory = convert_to_mega(conf[p].memory),
                                          !.cpus = str(conf[p].cpus),
                                          !.rules =
                                              <<Rule("boxpyssh",
                                                     vbox[p].vm_info["port"][2],
                                                     22)>>
                                              \o CustomRules(conf[p].forwarding[2],
                                                             1)]]
                  /\ pc' = [pc EXCEPT ![p] = "done"]
             ELSE /\ vms' = vms
                  /\ pc' = [pc EXCEPT ![p] = "raised"]
    /\ UNCHANGED <<fs, warned, args, conf, cloud_config, cmd, rc, vbox, locals>>

NextRace == \E p \in Procs : RaceScan(p) \/ RaceDraw(p) \/ RaceModifyVm(p)

SpecRace == InitRace /\ [][NextRace]_vars

-----------------------------------------------------------------------------
(* SpecFiles: get_cloud_config over a user's file whose write_files names  *)
(* local files and URLs that are there or not.                             *)

MaxFiles == 2      \* a write_files list has at most this many items

FileItems ==
    << M([path |-> S("/etc/a"), content |-> S("inline")]),
       M([path |-> S("/etc/b"), filename |-> P(<<"/", "cwd", "b.txt">>)]),
       M([path |-> S("/etc/c"), filename |-> P(<<"~", "c.txt">>)]),
       M([path |-> S("/etc/d"), url |-> S("http://host/d")]),
       M([path |-> S("/etc/e"), filename |-> P(<<"/", "cwd", "b.txt">>),
          permissions |-> S("0644")]) >>

\* what the files and the URL of FileItems can hold; <<>>: not there
FileTexts == {<<>>, S("text"), S("")}

InitFiles ==
    /\ vms = [x \in VMNames |-> NoVM]
    /\ \E items \in UNION {[1..n -> DOMAIN FileItems] : n \in 0..MaxFiles},
          b \in FileTexts, c \in FileTexts \ {S("")}, d \in FileTexts :
          fs = [p \in {<<"/", "home", ".ssh", "id_rsa", ".pub">>,
                       <<"/", "cwd", "user.yaml">>}
                      \cup (IF b = <<>> THEN {} ELSE {<<"/", "cwd", "b.txt">>})
                      \cup (IF c = <<>> THEN {} ELSE {<<"/", "home", "c.txt">>})
                      \cup (IF d = <<>> THEN {} ELSE {<<"http:", "http://host/d">>})
                  |-> CASE p = <<"/", "home", ".ssh", "id_rsa", ".pub">> ->
                               S("ssh-rsa AAAA")
                        [] p = <<"/", "cwd", "user.yaml">> ->
                               M([write_files |->
                                     L([i \in DOMAIN items |-> FileItems[items[i]]])])
                        [] p = <<"/", "cwd", "b.txt">> -> b
                        [] p = <<"/", "home", "c.txt">> -> c
                        [] OTHER -> d]
    /\ args = MkArgs("dev", {i \in DOMAIN CliOptions : CliOptions[i][1] = "config"})
    /\ conf = Config(args, EmptyDict, fs)
    /\ cmd = "Config"
    /\ pc = "resolved"
    /\ Idle

SpecFiles == InitFiles /\ [][Materialize]_vars

-----------------------------------------------------------------------------
(* SpecMega: convert_to_mega on the strings of up to MaxSizeLen characters *)

MaxSizeLen == 4

InitMega ==
    /\ \E n \in 0..MaxSizeLen :
          \E size \in [1..n -> {"0", "1", "2", "half", "m", "M", "g", "G",
                                "b", "B", "k"}] :
             args = [size |-> <<"chars", size>>]
    /\ vms = [x \in VMNames |-> NoVM]
    /\ fs = FileSystem({}, 0)
    /\ conf = NewConfig(MkArgs("dev", {}))
    /\ cmd = "convert_to_mega"
    /\ pc = "init"
    /\ Idle

\* memory = convert_to_mega(conf.memory)
CallConvert ==
    /\ cmd = "convert_to_mega" /\ pc = "init"
    /\ rc' = convert_to_mega(args.size)
    /\ pc' = "converted"
    /\ UNCHANGED <<vms, fs, warned, args, conf, cloud_config, cmd, vbox, locals,
                   calls>>

SpecMega == InitMega /\ [][CallConvert]_vars

-----------------------------------------------------------------------------
(* Properties of the resolution                                            *)

\* a Config was built without an exception
Resolved == cmd = "Config" /\ pc \in {"resolved", "dumped"} /\ conf.error = "ok"

\* the user's cloud-config file was found and merged
UserFileRead == Truthy(conf.user_data) /\ exists(fs, conf.user_data)

\* the control block boxpy_data of the user's file (empty when it has none)
UserBlock ==
    LET doc == fs[abspath(conf.user_data)[2]] IN
    IF "boxpy_data" \in DOMAIN doc[2] /\ doc[2]["boxpy_data"][1] = "map"
    THEN doc[2]["boxpy_data"][2] ELSE EmptyDict

\* the attributes as the defaults and the VM's attributes leave them
EarlierLayers == ApplyVmInfo(_set_defaults(NewConfig(args)), vbox.vm_info)

CliPairsAdded ==
    \A i \in DOMAIN args["forwarding"][2] :
        <<args["forwarding"][2][i][2], args["forwarding"][2][i][3]>>
            \in Range(conf.forwarding[2])

\* C7 (as stated): every attribute the command line sets carries the command
\* line's value in the resolved Config, whatever the other layers hold (a
\* number as its decimal string, a file as its absolute path, the forwarding
\* pairs as entries of the mapping)
C7_CliValueCarried ==
    Resolved =>
        \A k \in DOMAIN args \cap ATTRS :
            Truthy(args[k]) =>
                CASE k = "forwarding" -> CliPairsAdded
                  [] k = "image" -> conf.image = abspath(args["image"])
                  [] OTHER -> conf[k] = str(args[k])

\* C7 (amended): every attribute the command line sets carries the command
\* line's value, except distro, which is 'custom' whenever any layer sets an
\* image
C7_CliWinsButCustomImage ==
    Resolved =>
        \A k \in DOMAIN args \cap ATTRS :
            Truthy(args[k]) =>
                CASE k = "forwarding" -> CliPairsAdded
                  [] k = "image" -> conf.image = abspath(args["image"])
                  [] k = "distro" /\ Truthy(conf.image) ->
                        conf.distro = S("custom")
                  [] OTHER -> conf[k] = str(args[k])

\* C7 witness: cpus is set by the command line, by the VM and by the user's
\* file, and the resolved cpus is the command line's
C7_Witness ==
    /\ Resolved
    /\ args["cpus"] = I(2)
    /\ Get(vbox.vm_info, "cpus") = N(4)
    /\ UserFileRead /\ Get(UserBlock, "cpus") = I(8)
    /\ conf.cpus = N(2)

\* C8 (as stated): without cpus on the command line the resolved cpus is the
\* VM's attribute if it has one, else the user file's, else the default
C8_AttributeBeforeUserFile ==
    (Resolved /\ ~Truthy(args["cpus"])) =>
        conf.cpus =
            IF Truthy(Get(vbox.vm_info, "cpus")) THEN vbox.vm_info["cpus"]
            ELSE IF UserFileRead /\ Truthy(Get(UserBlock, "cpus"))
                 THEN str(UserBlock["cpus"])
                 ELSE N(1)

\* C8 (amended): without cpus on the command line, a user file that is read
\* and sets a non-empty cpus decides the resolved cpus, also over the VM's
\* attribute; when no user file is read the resolved cpus is the VM's
\* attribute if it has one, else the compiled default
C8_UserFileBeforeAttribute ==
    (Resolved /\ ~Truthy(args["cpus"])) =>
        /\ (UserFileRead /\ Truthy(Get(UserBlock, "cpus")))
               => conf.cpus = str(UserBlock["cpus"])
        /\ ~UserFileRead
               => conf.cpus = IF Truthy(Get(vbox.vm_info, "cpus"))
                              THEN vbox.vm_info["cpus"] ELSE N(1)

\* C8 witness: the VM has 4 cpus, the user's file says 8, the command line
\* nothing, and 8 is resolved
C8_Witness ==
    /\ Resolved
    /\ ~Truthy(args["cpus"])
    /\ Get(vbox.vm_info, "cpus") = N(4)
    /\ UserFileRead /\ Get(UserBlock, "cpus") = I(8)
    /\ conf.cpus = N(8)

\* C9 (as stated): merging a user file whose control block does not set an
\* attribute (or sets it empty) leaves the value of the earlier layers
C9_UnsetKeysKeepEarlierValue ==
    (Resolved /\ UserFileRead) =>
        \A k \in {"cpus", "memory", "disk_size", "key", "port"} :
            (~Truthy(args[k]) /\ ~Truthy(Get(UserBlock, k)))
                => conf[k] = EarlierLayers[k]

\* C10 (as stated): the document of get_cloud_config never has the key
\* boxpy_data
C10_NoControlBlockInGuestDocument ==
    (cmd = "Config" /\ pc = "dumped" /\ cloud_config[1] = "map")
        => "boxpy_data" \notin DOMAIN cloud_config[2]

\* the hostname a layer sets: the command line's, else the user file's,
\* else the VM's attribute, else nothing
HostnameSet ==
    IF Truthy(args["hostname"]) THEN str(args["hostname"])
    ELSE IF UserFileRead /\ Truthy(Get(UserBlock, "hostname"))
    THEN str(UserBlock["hostname"])
    ELSE Get(vbox.vm_info, "hostname")

C27_DerivedHostnameLowerCase ==
    (Resolved /\ ~Truthy(HostnameSet)) =>
        conf.hostname \in {S("dev"), S("my-vm"), S("zo-b2")}

-----------------------------------------------------------------------------
(* Properties of create, rebuild and destroy                               *)

\* the VM the invocation works on
Target == vms["dev"]

\* vmcreate has returned: to main(), or to vmrebuild
CreateReturned == pc = "rebuild_return" \/ (pc = "done" /\ cmd = "create")

\* the last external command was unregistervm, and it failed
UnregisterFailed ==
    /\ calls # <<>>
    /\ calls[Len(calls)].op = "unregistervm"
    /\ ~calls[Len(calls)].ok

\* C1 (as stated): the port _find_unused_port returns lies in 2000..2999 and
\* is the host port of no forwarding rule of another VM
C1_AllocatedPortIsFree ==
    (pc = "modifyvm" /\ ~Truthy(conf.port)) =>
        LET port == vbox.vm_info["port"][2] IN
        /\ port \in 2000..2999
        /\ \A x \in VMNames \ {vbox.name[2]} :
              \A i \in DOMAIN vms[x].rules : vms[x].rules[i].hostport # port

\* C2 (as stated): create with a given port that is the host port of a
\* forwarding rule of another VM returns 1 before any command that changes
\* something is run, and the VM is never registered
C2_GivenPortInUseAborts ==
    (/\ cmd = "create"
     /\ pc \notin {"main", "create", "create_port"}
     /\ conf.error = "ok"
     /\ Truthy(conf.port)
     /\ \E x \in VMNames \ {"dev"} :
           \E i \in DOMAIN vms[x].rules : vms[x].rules[i].hostport = conf.port[2])
    => /\ pc = "done"
       /\ rc = I(1)
       /\ calls = <<>>
       /\ ~Target.registered

\* C3 (as stated): when vmcreate returns after a KeyboardInterrupt in the
\* waiting loop, both temporary directories are removed, the VM is not
\* registered and the result is not 0
C3_InterruptRollsBack ==
    (CreateReturned /\ ret = "KeyboardInterrupt") =>
        /\ tmp = {}
        /\ ~Target.registered
        /\ rc # I(0)

\* C3 (amended): when vmcreate returns after a KeyboardInterrupt in the
\* waiting loop, both temporary directories are removed and the result is 1;
\* the VM is not registered unless unregistervm failed
C3_InterruptRollsBackUnlessUnregisterFails ==
    (CreateReturned /\ ret = "KeyboardInterrupt") =>
        /\ tmp = {}
        /\ rc = I(1)
        /\ Target.registered => UnregisterFailed

C3_Witness ==
    /\ CreateReturned
    /\ ret = "KeyboardInterrupt"
    /\ tmp = {}
    /\ ~Target.registered
    /\ rc = I(1)
    /\ \E i \in DOMAIN calls : calls[i].op = "startvm" /\ calls[i].ok

\* the step is the arrival of a KeyboardInterrupt
InterruptStep == pc' = "rollback" /\ ret' = "KeyboardInterrupt"

\* C4: when the probe is answered with 'Permission denied (publickey)' and
\* conf.username is set and differs from the user just tried, the next step
\* of vmcreate (an interrupt aside) makes conf.username the user of the
\* probe, the VM's attribute 'username' holds it, and the probe runs again
\* without a sleep and without a rollback
C4_SwitchesToAlternateUser ==
    [][(/\ pc = "probed"
        /\ out = "denied"
        /\ Truthy(conf.username)
        /\ conf.username # username
        /\ ~InterruptStep)
       => /\ username' = conf.username
          /\ Get(vms'["dev"].extradata, "username") = conf.username
          /\ pc' = "probe"
          /\ tmp' = tmp
          /\ vms'["dev"].registered]_vars

C4_Witness ==
    /\ pc = "probe"
    /\ switches = 1
    /\ out = "denied"
    /\ username = conf.username
    /\ Get(Target.extradata, "username") = conf.username
    /\ Target.running

\* the positions of vmcreate whose external command is fatal when it fails
FatalSteps == {"createvm", "modifyvm", "nested", "ctl_ide", "ctl_sata",
               "xd_distro", "xd_hostname", "xd_key", "xd_version", "xd_image",
               "xd_username", "xd_user_data", "xd_creator", "image", "resize",
               "iso", "nics", "poweron"}

\* what C5 says of one step, given what `the VM is destroyed` asks of the
\* state after the PermissionError has left vmcreate
C5_Step(destroyed) ==
    /\ switches' <= 1
    /\ (/\ pc = "probed"
        /\ out = "denied"
        /\ ~Truthy(conf.username) \/ conf.username = username \/ switches = 1
        /\ ~InterruptStep)
       => pc' = "rollback" /\ ret' = "PermissionError"
    /\ (pc' = "done" /\ ret' = "PermissionError")
       => /\ rc' = Raise("PermissionError")
          /\ tmp' = {}
          /\ destroyed
    /\ (pc \in FatalSteps /\ calls' # calls /\ ~calls'[Len(calls')].ok)
       => pc' \in {"done", "rebuild_return"}

\* C5 (as stated): the user of the probe changes at most once; a rejection
\* with no other user to try, or after the change, ends vmcreate: the
\* temporary directories are removed, the VM is not registered any more and
\* PermissionError reaches the caller; a failed fatal command is not retried
C5_OneSwitchThenFatal ==
    [][C5_Step(~vms'["dev"].registered)]_vars

\* C5 (amended): as stated, but the VM is still registered when unregistervm
\* failed
C5_OneSwitchThenFatalUnlessUnregisterFails ==
    [][C5_Step(vms'["dev"].registered => UnregisterFailed')]_vars

C5_Witness ==
    /\ pc = "done"
    /\ ret = "PermissionError"
    /\ rc = Raise("PermissionError")
    /\ switches = 1
    /\ tmp = {}
    /\ ~Target.registered

\* C6 (as stated): a rebuild without --disk-size that made the new VM gave it
\* a disk of the size of the old VM's disk
C6_RebuildKeepsDiskSize ==
    (/\ cmd = "rebuild"
     /\ pc = "done"
     /\ rc = I(0)
     /\ ~Truthy(args["disk_size"])
     /\ Target.registered
     /\ Target.uuid = "u-new"
     /\ Len(Target.hdds) = 1)
    => Target.hdds[1].size = disk_path.size

-----------------------------------------------------------------------------
(* Properties of the deep merge                                            *)

\* the merge of `new` into `old` as C11 describes it: keys only in `old` are
\* kept, keys only in `new` are added, two mappings are merged key by key,
\* and otherwise the value of `new` replaces the value of `old`
RECURSIVE DeepMerge(_, _)
DeepMerge(old, new) ==
    M([key \in DOMAIN old[2] \cup DOMAIN new[2] |->
          IF key \notin DOMAIN new[2] THEN old[2][key]
          ELSE IF key \notin DOMAIN old[2] THEN new[2][key]
          ELSE IF old[2][key][1] = "map" /\ new[2][key][1] = "map"
               THEN DeepMerge(old[2][key], new[2][key])
               ELSE new[2][key]])

\* C11 (as stated): _update(A, B) is the deep merge of B into A, for all
\* documents A and B
C11_UpdateIsDeepMerge ==
    (cmd = "_update" /\ pc = "merged") =>
        rc = DeepMerge(args.source, args.update)

-----------------------------------------------------------------------------
(* Properties of start and stop                                            *)

\* start of a running VM, or stop of a stopped one, is about to run
AlreadyThere ==
    /\ pc = "set_vmstate"
    /\ vms["dev"].registered
    /\ vms["dev"].running <=> cmd = "start"

\* C12: start on a running VM and stop on a stopped VM issue no driver call
\* that changes anything, leave every VM as it is and report success; the
\* state the command leaves is the state it found, so that running it again
\* does the same
C12_StartStopIdempotent ==
    [][/\ AlreadyThere => /\ calls' = calls
                          /\ vms' = vms
                          /\ rc' = None /\ pc' = "vmstate_return"
       /\ (pc = "vmstate_return" /\ calls = <<>>)
              => /\ calls' = calls /\ vms' = vms
                 /\ rc' = None /\ pc' = "done"]_vars

C12_Witness ==
    /\ pc = "done" /\ cmd \in {"start", "stop"}
    /\ vms["dev"].registered
    /\ vms["dev"].running <=> cmd = "start"
    /\ calls = <<>>
    /\ rc = None

\* C13: stop on a running VM sends the power-button signal and nothing
\* else, start on a stopped VM issues a power-on and nothing else, and no
\* execution of start or stop calls the forced poweroff
C13_StopIsGraceful ==
    [][/\ (pc = "set_vmstate" /\ vms["dev"].registered /\ ~AlreadyThere)
              => /\ Len(calls') = 1
                 /\ calls'[1].vm = "dev"
                 /\ calls'[1].op = IF cmd = "stop" THEN "acpipowerbutton"
                                   ELSE "startvm"
       /\ cmd \in {"start", "stop"}
              => \A i \in DOMAIN calls' : calls'[i].op # "poweroff"]_vars

C13_Witness ==
    /\ pc = "done" /\ cmd = "stop"
    /\ Len(calls) = 1 /\ calls[1].op = "acpipowerbutton"

-----------------------------------------------------------------------------
(* Properties of destroy                                                   *)

\* the driver calls issued for the VM `n`, in the order of their issue
OpsOf(n) ==
    LET IsN(c) == c.vm = n
        own == SelectSeq(calls, IsN)
    IN  [i \in DOMAIN own |-> own[i].op]

\* the calls of a destroy, with and without a recorded config-drive path
DestroyOps(recorded) ==
    <<"poweroff", "storageattach none">>
    \o (IF recorded THEN <<"closemedium">> ELSE <<>>) \o <<"unregistervm">>

IsPrefix(s, t) == Len(s) <= Len(t) /\ \A i \in DOMAIN s : s[i] = t[i]

DestroyNames == {args.name[2][i][2] : i \in DOMAIN args.name[2]}

\* C14: destroy of an existing VM issues power off, detach of the config
\* drive, release of its medium (only when iso_path is recorded) and
\* unregister-and-delete, in this order; once begun it reaches the
\* unregister step whatever the earlier steps return; it reports failure
\* exactly when unregistration fails, and after a successful unregistration
\* the VM and its attributes are gone
C14_DestroyOrder ==
    cmd = "destroy" =>
      /\ \A n \in {"dev", "web-1"} :
           LET ops == OpsOf(n) IN
           /\ IsPrefix(ops, DestroyOps(TRUE)) \/ IsPrefix(ops, DestroyOps(FALSE))
           /\ (vms[n].registered /\ Len(ops) >= 3)
                 => (ops[3] = "closemedium"
                       <=> Truthy(Get(vms[n].extradata, "iso_path")))
           /\ (pc = "done" /\ ops # <<>>) => ops[Len(ops)] = "unregistervm"
           /\ \A i \in DOMAIN calls :
                 (calls[i].vm = n /\ calls[i].op = "unregistervm" /\ calls[i].ok)
                    => vms[n] = NoVM
      /\ pc = "done" =>
           /\ rc \in {I(0), I(7), I(18)}
           /\ rc = I(7) <=> \E i \in DOMAIN calls :
                               calls[i].op = "unregistervm" /\ ~calls[i].ok
           /\ rc = I(18) => \E n \in DestroyNames : ~vms[n].registered
           /\ rc = I(0) => \A n \in DestroyNames :
                              /\ vms[n] = NoVM
                              /\ OpsOf(n)[Len(OpsOf(n))] = "unregistervm"

C14_Witness ==
    /\ cmd = "destroy" /\ pc = "done" /\ rc = I(0)
    /\ OpsOf("web-1") = DestroyOps(TRUE)
    /\ OpsOf("dev") = DestroyOps(FALSE)
    /\ \E i \in DOMAIN calls : ~calls[i].ok

-----------------------------------------------------------------------------
(* Properties of the end of create                                         *)

\* C15 (as stated): when create returns 0, the config drive has been taken
\* out of the VM's drive and its medium released, and the temporary
\* directories of the config drive and of the boot image are gone
C15_ConfigDriveReleasedOnSuccess ==
    (cmd = "create" /\ pc = "done" /\ rc = I(0)) =>
        /\ vms["dev"].dvd = <<>>
        /\ \E i \in DOMAIN calls : calls[i].op = "closemedium" /\ calls[i].ok
        /\ tmp = {}

\* C16: a terminal status other than 'done' makes create report a warning
\* and go on as on success: nothing is rolled back, the VM stays registered
\* and powered on, the temporary directories are removed and create
\* returns 0
C16_WarningThenReady ==
    /\ [][(pc = "probed" /\ out = "error" /\ pc' # "rollback")
             => (warned' = "error" /\ pc' = "cleanup")]_vars
    /\ [](cmd = "create" /\ warned # "nothing"
             => /\ pc \in {"cleanup", "reread", "done"}
                /\ vms["dev"].registered /\ vms["dev"].running
                /\ \A i \in DOMAIN calls :
                      calls[i].op \notin {"poweroff", "unregistervm"}
                /\ pc \in {"reread", "done"} => tmp = {}
                /\ pc = "done" => rc = I(0))

C16_Witness ==
    /\ cmd = "create" /\ pc = "done" /\ warned = "error"
    /\ rc = I(0) /\ tmp = {} /\ vms["dev"].running

-----------------------------------------------------------------------------
(* Properties of the exit status                                           *)

\* the calls whose failure VBoxManage.destroy and vmrebuild may ignore
BestEffort == {"poweroff", "storageattach none", "closemedium"}

\* C17 (as stated): a command that met a fatal condition ends with a
\* non-zero exit status: start and stop of a VM that does not exist,
\* rebuild whose destroy or create failed, create with a failed driver call
\* that is not best-effort
C17_FatalIsNonZero ==
    (pc = "done" /\ ExitStatus = 0) =>
        /\ cmd \in {"start", "stop"} => vms["dev"].registered
        /\ cmd = "rebuild" =>
              /\ vms["dev"].registered
              /\ \A i \in DOMAIN calls :
                    calls[i].op \in {"unregistervm", "createvm"} => calls[i].ok
        /\ cmd = "create" =>
              \A i \in DOMAIN calls :
                 calls[i].ok \/ calls[i].op \in BestEffort

\* the place a finished command failed at, as far as the final state shows it
FailureSite ==
    CASE rc # None /\ rc[1] = "raise" -> "uncaught exception"
      [] ret = "KeyboardInterrupt" -> "interrupted bootstrap"
      [] \E i \in DOMAIN calls : calls[i].op = "unregistervm" /\ ~calls[i].ok
            -> "unregister failure"
      [] cmd \in {"create", "rebuild"} /\ calls = <<>> /\ conf.error # "ok"
            -> "configuration error"
      [] cmd \in {"create", "rebuild"} /\ conf.error = "ok"
         /\ \A i \in DOMAIN calls : calls[i].op # "createvm"
            -> "port in use"
      [] OTHER -> "another site"

\* C18 (as stated): a non-zero exit code names one failure site: a command
\* that returns 1 failed at create's port-in-use check and nowhere else, a
\* command that returns 7 failed at create's configuration error and
\* nowhere else
C18_ExitStatusNamesSite ==
    pc = "done" =>
        /\ rc = I(1) => FailureSite = "port in use"
        /\ rc = I(7) => FailureSite = "configuration error"

-----------------------------------------------------------------------------
(* Properties of the failures of create and rebuild                        *)

\* C19: a Config that fails on malformed YAML or on a missing SSH public
\* key ends create and rebuild at once with an error result, before any
\* driver call that changes something; and as long as no such call has been
\* issued the VMs are as the command found them
C19_ConfigErrorIsPreflight ==
    /\ [](cmd \in {"create", "rebuild"}
          /\ conf.error \in {"BoxConfError", "YAMLError"}
             => /\ pc = "done"
                /\ ExitStatus # 0
                /\ calls = <<>>)
    /\ [][calls' = <<>> => vms' = vms]_vars

C19_Witness ==
    /\ cmd = "rebuild" /\ pc = "done"
    /\ conf.error = "BoxConfError"
    /\ vms["dev"].registered /\ vms["dev"].running
    /\ calls = <<>>

\* C20 (as stated): in create, after a failed driver call that is not
\* best-effort cleanup the VM is never powered on, and create ends with a
\* non-zero result
C20_DriverFailureIsFatal ==
    cmd = "create" =>
        \A i \in DOMAIN calls :
           (~calls[i].ok /\ calls[i].op \notin BestEffort /\ calls[i].op # "startvm")
              => /\ \A j \in DOMAIN calls : j > i => calls[j].op # "startvm"
                 /\ pc = "done" => ExitStatus # 0

-----------------------------------------------------------------------------
(* Properties of the attributes a create leaves                            *)

\* the fields of a Config that describe the VM
SpecFields ==
    {"cpus", "memory", "disk_size", "distro", "version", "hostname", "key",
     "port", "forwarding", "disable_nested", "username", "user_data"}

\* Config(args, vbox) of a command line that gives the name only, as info,
\* ssh and rebuild resolve it
ResolvedAgain == Config(MkArgs("dev", {}), get_vm_info(vms["dev"]), fs)

\* create is past its wait loop with status done; conf is still the Config
\* the VM was made from
CreateSucceeded ==
    cmd = "create" /\ pc = "reread" /\ out = "done"

\* C21 (as stated): after a successful create, the Config resolved again
\* from the VM alone has the value of the create-time Config in every field
\* that describes the VM (for the port: the given one, or else the one
\* create allocated), and the VM's creator attribute is 'boxpy'
C21_RoundTrip ==
    CreateSucceeded =>
        /\ \A f \in SpecFields \ {"port"} : ResolvedAgain[f] = conf[f]
        /\ ResolvedAgain.port = IF conf.port = None
                                THEN str(vbox.vm_info["port"]) ELSE conf.port
        /\ Get(vms["dev"].extradata, "creator") = S("boxpy")

-----------------------------------------------------------------------------
(* Properties of rebuild                                                   *)

\* C22 (as stated): no step of a rebuild of a VM that does not have exactly
\* one disk changes a VM (a running VM is still running, attributes and
\* media are as they were), and the rebuild ends on 'cannot deal with
\* multiple attached disks' with the VM registered
C22_MultiDiskRebuildChangesNothing ==
    [][(cmd = "rebuild" /\ vms["dev"].registered /\ Len(vms["dev"].hdds) # 1)
          => /\ vms' = vms
             /\ pc' = "done" => rc' \in {I(9), I(8), I(15)} \/ rc'[1] = "raise"]_vars

\* the old VM of a rebuild: one of the machines the run can start with
OldVmThere ==
    vms["dev"].registered /\ vms["dev"].uuid # "u-new"

Unregistered(oks) ==
    \E i \in DOMAIN calls : calls[i].op = "unregistervm" /\ calls[i].ok \in oks

\* no step between the resolution of the Config and the re-read at the end
\* of create resolves it again
RebuildKeepsConf ==
    [][(cmd = "rebuild" /\ pc \notin {"main", "rebuild", "rebuild_disk", "reread"})
          => conf' = conf]_vars

\* C23 (as stated): in a rebuild the old VM has been destroyed when create
\* starts, create runs with the Config resolved before the destroy, and
\* when create fails after the destroy the old VM is gone for good
C23_DestroyThenCreate ==
    /\ [](cmd = "rebuild" /\ pc = "create_port" => ~OldVmThere)
    /\ [](cmd = "rebuild" /\ Unregistered({TRUE}) => ~OldVmThere)
    /\ RebuildKeepsConf

-----------------------------------------------------------------------------
(* Properties of the registration                                          *)

\* C24 (as stated): when createvm fails or answers with a warning, create
\* ends with an error, createvm is the last driver call it issued, and no VM
\* made by this create is registered
C24_FailedRegistrationLeavesNothing ==
    (cmd = "create" /\ \E i \in DOMAIN calls :
                          calls[i].op = "createvm" /\ ~calls[i].ok) =>
        /\ calls[Len(calls)].op = "createvm"
        /\ pc = "done" /\ ExitStatus # 0
        /\ ~(vms["dev"].registered /\ vms["dev"].uuid = "u-new")

-----------------------------------------------------------------------------
(* Properties of convert_to_mega                                           *)

\* the megabytes of a size as C25 gives them: n for the numeral n with no
\* suffix or with m or mb, n * 1024 for g and gb, in either case of the
\* letters; None for everything else
Megabytes(s) ==
    LET numeral(x) == x # <<>> /\ \A i \in DOMAIN x : x[i] \in {"0", "1", "2"}
        front(n) == SubSeq(s, 1, Len(s) - n)
        tail(n) == SubSeq(s, Len(s) - n + 1, Len(s))
        ends1(set) == Len(s) >= 1 /\ tail(1) \in set /\ numeral(front(1))
        ends2(set) == Len(s) >= 2 /\ tail(2) \in set /\ numeral(front(2))
        MB == {<<"m", "b">>, <<"m", "B">>, <<"M", "b">>, <<"M", "B">>}
        GB == {<<"g", "b">>, <<"g", "B">>, <<"G", "b">>, <<"G", "B">>}
    IN  CASE numeral(s) -> <<"chars", s>>
          [] ends1({<<"m">>, <<"M">>}) -> <<"chars", front(1)>>
          [] ends2(MB) -> <<"chars", front(2)>>
          [] ends1({<<"g">>, <<"G">>})
                -> <<"chars", digits(int(front(1))[2] * 1024)>>
          [] ends2(GB) -> <<"chars", digits(int(front(2))[2] * 1024)>>
          [] OTHER -> None

\* C25 (as stated): convert_to_mega returns the megabytes of every size
\* that is a numeral with no suffix or one of M, MB, G, GB in any case, and
\* no result for every other string
C25_ConvertToMega ==
    (cmd = "convert_to_mega" /\ pc = "converted") =>
        rc = Megabytes(args.size[2])

-----------------------------------------------------------------------------
(* Properties of the port allocation                                       *)

\* every port randint can yield is the host port of a rule of another VM
Saturated ==
    \A p \in randint(2000, 2999) :
       \E x \in VMNames \ {"dev"} :
          \E i \in DOMAIN vms[x].rules : vms[x].rules[i].hostport = p

\* C28: on a saturated range the loop of _find_unused_port does not turn
\* forever: it ends, with a port or with an error
C28_AllocationTerminates ==
    (pc = "draw" /\ Saturated) ~> (pc # "draw")

C28_Witness ==
    /\ Saturated
    /\ DOMAIN used_ports # {}
    /\ pc = "modifyvm"
    /\ "port" \in DOMAIN vbox.vm_info

\* C29: nothing tells one invocation about the port another has taken and
\* not yet registered: while a process is between its draw and its
\* modifyvm, its VM forwards nothing and is in no other process's scan
C29_NoReservation ==
    \A p \in Procs :
       pc[p] = "modifyvm" =>
          /\ vms[RaceNames[p]].rules = <<>>
          /\ \A q \in Procs \ {p} : RaceNames[p] \notin DOMAIN used_ports[q]

\* both invocations are through and their VMs forward the same host port
C29_Witness ==
    /\ \A p \in Procs : pc[p] = "done"
    /\ vms[RaceNames[1]].rules[1].name = "boxpyssh"
    /\ vms[RaceNames[1]].rules[1].hostport = vms[RaceNames[2]].rules[1].hostport

-----------------------------------------------------------------------------
(* Properties of write_files                                               *)

\* the write_files of the user's file
GivenFiles == fs[<<"/", "cwd", "user.yaml">>][2]["write_files"][2]

\* the file or URL an item names is there
Fetchable(item) ==
    IF "filename" \in DOMAIN item[2]
    THEN exists(fs, expanduser(item[2]["filename"]))
    ELSE <<"http:", item[2]["url"][2]>> \in DOMAIN fs

\* the items that are kept: those that name nothing as they are, those
\* that name something that is there with its text for content
RECURSIVE KeptFiles(_)
KeptFiles(items) ==
    IF items = <<>> THEN <<>>
    ELSE LET item == Head(items)
             key == IF "filename" \in DOMAIN item[2] THEN "filename" ELSE "url"
         IN  (IF key \notin DOMAIN item[2] THEN <<item>>
              ELSE IF ~Fetchable(item) THEN <<>>
              ELSE <<M(Put(Del(item[2], key), "content",
                           IF key = "filename"
                           THEN fs[abspath(expanduser(item[2][key]))[2]]
                           ELSE fs[<<"http:", item[2][key][2]>>]))>>)
             \o KeptFiles(Tail(items))

\* C30: get_cloud_config returns a document whose write_files is the given
\* list, in order, without the items whose file is missing or whose URL
\* does not answer 200, with every other item kept (resolved to inline
\* content if it names a file or a URL), and it never raises over an item
C30_WriteFilesMaterialized ==
    (cmd = "Config" /\ pc = "dumped" /\ GivenFiles # <<>>) =>
        /\ cloud_config[1] = "map"
        /\ cloud_config[2]["write_files"] = L(KeptFiles(GivenFiles))

-----------------------------------------------------------------------------
(* Properties of the life cycle of create                                  *)

\* the number of successful calls of op among the first n calls
Done(op, n) ==
    Cardinality({j \in 1..n : calls[j].op = op /\ calls[j].ok})

\* C31 (as stated): create issues the power-on only after the registration,
\* both controllers, the attribute writes and the attachment of the boot
\* disk and of the config drive have been performed, and it returns 0 only
\* after the power-on and the wait for the bootstrap
C31_LifecycleOrder ==
    cmd = "create" =>
        /\ \A i \in DOMAIN calls :
              calls[i].op = "startvm" =>
                 /\ Done("createvm", i) = 1
                 /\ Done("modifyvm", i) = 1
                 /\ Done("storagectl", i) = 2
                 /\ Done("setextradata", i) >= 1
                 /\ \A j \in 1..i : calls[j].op = "setextradata" => calls[j].ok
                 /\ Done("storageattach hdd", i) = 1
                 /\ Done("storageattach dvddrive", i) = 1
        /\ (pc = "done" /\ rc = I(0)) =>
              /\ Done("startvm", Len(calls)) = 1
              /\ out # "nothing"

\* create is in the loop that waits for the bootstrap
Awaiting == pc \in {"probe", "probed", "sleep"}

\* C32: the loop that waits for the bootstrap has no deadline: an empty or
\* 'running' answer leads to the sleep and back to the next probe with
\* nothing counted, and the loop is left only on a terminal answer, on a
\* rejected key with no other user to try, or on an interrupt
C32_NoDeadline ==
    [][/\ (Awaiting /\ ~Awaiting') =>
             \/ pc = "probed" /\ out \notin {"none", "running", "denied"}
             \/ pc = "probed" /\ out = "denied" /\ ~has_alternate(conf, username)
             \/ ret' = "KeyboardInterrupt"
       /\ (pc = "probed" /\ out \in {"none", "running"}) =>
             pc' = "sleep" \/ ret' = "KeyboardInterrupt"
       /\ pc = "sleep" =>
             /\ pc' = "probe" \/ ret' = "KeyboardInterrupt"
             /\ UNCHANGED <<vms, rc, out, switches, username, calls>>]_vars

\* the loop has turned: a probe was answered 'running' and the next is due
C32_Witness ==
    /\ pc = "probe"
    /\ out = "running"
    /\ vms[vbox.name[2]].running
    /\ ret = "none"

\* the last external command was storagectl, and it failed
ControllerFailed ==
    /\ calls # <<>>
    /\ calls[Len(calls)].op = "storagectl"
    /\ ~calls[Len(calls)].ok

\* C33: when storagectl fails for the IDE or the SATA controller, vmcreate
\* returns 3 or 4 at once and takes nothing back: the VM it registered is
\* still there, not running and without media
C33_ControllerFailureLeavesVm ==
    CreateReturned =>
        /\ ControllerFailed <=> rc \in {I(3), I(4)}
        /\ ControllerFailed =>
              /\ rc = I(3) <=> "IDE" \notin vms[vbox.name[2]].controllers
              /\ vms[vbox.name[2]].registered
              /\ ~vms[vbox.name[2]].running
              /\ vms[vbox.name[2]].hdds = <<>>
              /\ vms[vbox.name[2]].dvd = <<>>

C33_Witness ==
    /\ cmd = "create" /\ pc = "done"
    /\ rc = I(4)
    /\ ControllerFailed
    /\ vms["dev"].registered
    /\ vms["dev"].controllers = {"IDE"}

-----------------------------------------------------------------------------
(* Properties of the scan of the ports                                     *)

\* used_ports holds the result of a _get_defined_ports() of this invocation
Scanned ==
    /\ cmd \in {"create", "rebuild"}
    /\ pc = "draw" \/ (pc = "createvm" /\ Truthy(conf.port))

\* the host ports of the forwarding rules of the VMs other than vbox's
ForwardedByOthers ==
    UNION {{vms[x].rules[i].hostport : i \in DOMAIN vms[x].rules} :
              x \in {y \in VMNames \ {vbox.name[2]} : vms[y].registered}}

\* C34 (as stated): the ports _get_defined_ports returns are the host ports
\* of all forwarding rules of all VMs but the one being created, and
\* is_port_in_use names an owner for exactly these ports
C34_ScanFindsEveryForward ==
    Scanned =>
        /\ {used_ports[n][2] : n \in DOMAIN used_ports} = ForwardedByOthers
        /\ \A p \in ForwardedByOthers \cup randint(2000, 2999) :
              Truthy(is_port_in_use(used_ports, N(p))) <=> p \in ForwardedByOthers

-----------------------------------------------------------------------------
(* Properties of the forwarded ports                                       *)

\* the <<host, guest>> pairs of a layer: the command line, the control
\* block of the user's file, the rules the VM carries
CliPairs ==
    IF Truthy(args["forwarding"]) THEN Range(Split(args["forwarding"][2])) ELSE {}

FilePairs ==
    IF UserFileRead /\ Truthy(Get(UserBlock, "forwarding"))
    THEN Range(Split(UserBlock["forwarding"][2])) ELSE {}

RecordPairs ==
    IF Truthy(Get(vbox.vm_info, "forwarding"))
    THEN Range(vbox.vm_info["forwarding"][2]) ELSE {}

Hosts(pairs) == {p[1] : p \in pairs}

\* C35: the forwarding of a resolved Config holds every pair of the command
\* line, every pair of the user's file and of the VM's attributes whose host
\* port no later layer gives again, and nothing else; a pair is replaced
\* only by a pair with its host port, and no host port is there twice
C35_ForwardingIsAdditive ==
    Resolved =>
        LET fwd == conf.forwarding[2] IN
        /\ Range(fwd) =
              CliPairs
              \cup {p \in FilePairs : p[1] \notin Hosts(CliPairs)}
              \cup {p \in RecordPairs : p[1] \notin Hosts(CliPairs \cup FilePairs)}
        /\ \A i, j \in DOMAIN fwd : fwd[i][1] = fwd[j][1] => i = j

\* all three layers give pairs, and the command line gives one host port again
C35_Witness ==
    /\ Resolved
    /\ CliPairs # {} /\ FilePairs # {} /\ RecordPairs # {}
    /\ Hosts(CliPairs) \cap Hosts(RecordPairs) # {}
    /\ Hosts(CliPairs) \ Hosts(FilePairs \cup RecordPairs) # {}
    /\ Len(conf.forwarding[2]) = 3

-----------------------------------------------------------------------------
(* Properties of the SSH key                                               *)

\* the candidates for the public key, in the order they are tried: the
\* configured path, that path with '.pub', the '.pub' path under ~/.ssh
KeyCandidates ==
    LET pub == IF endswith_pub(conf.key) THEN conf.key ELSE add_pub(conf.key)
    IN  <<expanduser(conf.key), expanduser(pub),
          join(expanduser(P(<<"~", ".ssh">>)), pub)>>

\* C36 (as stated): the key path of a Config is the first candidate that
\* exists; the resolution fails with BoxConfError when none exists, and a
\* path it gives names an existing file
C36_FirstExistingKey ==
    (cmd = "Config" /\ pc = "resolved" /\ conf.error \in {"ok", "BoxConfError"}) =>
        LET there == {i \in DOMAIN KeyCandidates : exists(fs, KeyCandidates[i])}
        IN  IF there = {} THEN conf.error = "BoxConfError"
            ELSE /\ conf.error = "ok"
                 /\ exists(fs, conf.ssh_key_path)
                 /\ abspath(conf.ssh_key_path) =
                       abspath(KeyCandidates[CHOOSE i \in there :
                                                \A j \in there : i <= j])

-----------------------------------------------------------------------------
(* Properties of the end of create                                         *)

\* C37 (as stated): once the VM is powered on, create ends either ready
\* (0 returned, the VM registered, the temporary directories removed) or
\* rolled back (the VM gone, the temporary directories removed)
C37_ReadyOrRolledBack ==
    (cmd = "create" /\ pc = "done" /\ Done("startvm", Len(calls)) = 1) =>
        \/ rc = I(0) /\ vms["dev"].registered /\ tmp = {}
        \/ rc # I(0) /\ vms["dev"] = NoVM /\ tmp = {}

-----------------------------------------------------------------------------
(* Properties of destroy with several names                                *)

\* unregistervm has succeeded for the VM n
Unregistered1(n) ==
    \E i \in DOMAIN calls :
       calls[i].vm = n /\ calls[i].op = "unregistervm" /\ calls[i].ok

\* C38: vmdestroy takes the names in the order given and stops at the first
\* that does not exist (18) or whose unregistervm fails (7): the VMs named
\* before it are destroyed, no command is run for a VM named after it
C38_DestroyStopsAtFirstFailure ==
    (cmd = "destroy" /\ pc = "done") =>
        LET names == [i \in DOMAIN args.name[2] |-> args.name[2][i][2]] IN
        /\ \A i, j \in DOMAIN calls :
              i < j => \E a, b \in DOMAIN names :
                          a <= b /\ calls[i].vm = names[a] /\ calls[j].vm = names[b]
        /\ \/ /\ rc = I(0)
              /\ \A a \in DOMAIN names :
                    vms[names[a]] = NoVM /\ Unregistered1(names[a])
           \/ \E k \in DOMAIN names :
                 /\ \A a \in 1..(k - 1) :
                       vms[names[a]] = NoVM /\ Unregistered1(names[a])
                 /\ \/ /\ rc = I(18)
                       /\ ~vms[names[k]].registered
                       /\ \A i \in DOMAIN calls :
                             calls[i].vm = names[k] => \E a \in 1..(k - 1) :
                                                          names[a] = names[k]
                    \/ /\ rc = I(7)
                       /\ vms[names[k]].registered
                       /\ UnregisterFailed
                       /\ calls[Len(calls)].vm = names[k]
                 /\ \A b \in (k + 1)..Len(names) :
                       names[b] \in {names[a] : a \in 1..k} \/ OpsOf(names[b]) = <<>>

\* the first of two names could not be unregistered: the second is as it was
C38_Witness ==
    /\ cmd = "destroy" /\ pc = "done" /\ rc = I(7)
    /\ args.name[2] = <<S("web-1"), S("dev")>>
    /\ vms["web-1"].registered
    /\ vms["dev"].registered
    /\ OpsOf("dev") = <<>>
    /\ OpsOf("web-1") # <<>>

====
